---- MODULE Spec2Model ----
(***************************************************************************)
(* The autonomous decision loop of the Twitch MCP server: the monitor      *)
(* (autonomous-monitor.ts), the decision engine (decision-engine.ts) and   *)
(* the feedback recorder (feedback-recorder.ts).                           *)
(*                                                                         *)
(* Times are milliseconds (Date.getTime()), confidences are hundredths     *)
(* (0.7 is 70), a parameter object is the set of its keys, an absent field  *)
(* of an oracle proposal is "none" (0 for a number) and an optional value  *)
(* of the program is a list of at most one element.  Every await of the    *)
(* code whose continuation reads or writes shared state is a position (pc) *)
(* of a pipeline; the oracle and the executor are the environment and      *)
(* answer nondeterministically.  A call of stop(), of                      *)
(* performDailyMaintenance() or of a method of the recorder that is         *)
(* suspended at an await is an element of chores.                          *)
(***************************************************************************)
EXTENDS Integers, Sequences, FiniteSets, TLC

VARIABLES
  config,            \* AutonomousMonitor.config.autonomous (shared with the engine)
  isRunning,         \* AutonomousMonitor.isRunning
  isActive,          \* AutonomousMonitor.state.isActive
  monitoringTimer,   \* AutonomousMonitor.monitoringTimer is not null
  intervals,         \* live setInterval timers that call monitoringLoop
  maintenance,       \* daily-maintenance schedules armed by scheduleDailyMaintenance
  maintenanceDue,    \* per armed schedule, the instant its timer fires next
  lifecycleLog,      \* the last console line written by start() or stop()
  chores,            \* calls suspended at an await: stop(), performDailyMaintenance
                     \* and the calls made to the recorder
  recentMessages,    \* AutonomousMonitor.recentMessages
  recentActions,     \* AutonomousMonitor.state.recentActions
  statistics,        \* AutonomousMonitor.state.statistics
  lastAnalysis,      \* AutonomousMonitor.state.lastAnalysis
  ledger,            \* AIDecisionEngine.recentActions (tool -> last proposal time)
  recentFeedback,    \* FeedbackRecorder.recentFeedback
  files,             \* the feedback directory: file name -> blocks appended to it
  feedbackDir,       \* the feedback directory exists (fs.access resolves)
  learningData,      \* AutonomousMonitor.state.learningData (pattern key -> count)
  arrived,           \* chat messages passed to addChatMessages so far
  userMessageCounts, \* AIPatternAnalyzer.userMessageCounts (user -> timestamps)
  ret,               \* what the call to the recorder that returned last has returned
  now,               \* the clock
  cycles,            \* pipelines started so far
  tasks              \* the pipelines (periodic cycle, forceAnalysis, makeDecisions)

monitorVars == <<isRunning, isActive, monitoringTimer, intervals, maintenance,
                 maintenanceDue>>
lifecycleVars == <<lifecycleLog, chores>>
stateVars == <<recentActions, statistics, lastAnalysis, learningData>>
storeVars == <<recentFeedback, files, feedbackDir>>
windowVars == <<recentMessages, arrived>>
inputVars == <<windowVars, userMessageCounts>>
vars == <<config, isRunning, isActive, monitoringTimer, intervals, maintenance,
          maintenanceDue, lifecycleLog, chores, recentMessages, arrived,
          userMessageCounts, recentActions, statistics, lastAnalysis, learningData,
          ledger, recentFeedback, files, feedbackDir, ret, now, cycles, tasks>>

---------------------------------------------------------------------------
(* Bounds of the model *)

MaxTasks == 2        \* pipelines that can be in flight at the same time
MaxCycles == 2       \* pipelines started in one behaviour
MaxStarts == 2       \* successful start() calls in one behaviour
MaxMessages == 1     \* chat messages added in one behaviour
MaxRecords == 2      \* direct recordAction calls in one behaviour
MaxBlocks == 4       \* blocks appended to one log file in one behaviour
RetentionDays == 1              \* retentionDays of the recorder's configuration
MaxAnalyzed == 102              \* messages pushed before the analyzer's calls
MaxLearned == 2      \* value of a learning counter before a feedback call
MaxCalls == 2        \* recorder calls suspended at an await at the same time

(* Program constants *)

WindowCap == 100            \* recentMessages.slice(-100)
RecentActionsCap == 50      \* state.recentActions.slice(-50)
MatchWindowMs == 60000      \* feedback matches an entry closer than this
MsPerMinute == 60000        \* tool.cooldown * 60 * 1000
DefaultConfidence == 70     \* decision.confidence || 0.7
FallbackConfidence == 60    \* confidence of a fallback decision
NoTime == -1                \* Map.get(tool) is undefined
HourMs == 3600000           \* hours * 60 * 60 * 1000
DayMs == 86400000           \* 24 * 60 * 60 * 1000

Tasks == 1..MaxTasks

---------------------------------------------------------------------------
(* decision-engine.ts: the tool table and the configuration *)

AVAILABLE_MCP_TOOLS ==
  << [name |-> "sendMessageToChat", riskLevel |-> "low", cooldown |-> 0,
      required |-> {"message"}],
     [name |-> "timeoutUser", riskLevel |-> "high", cooldown |-> 1,
      required |-> {"usernameOrDescriptor"}],
     [name |-> "banUser", riskLevel |-> "high", cooldown |-> 5,
      required |-> {"usernameOrDescriptor"}],
     [name |-> "createTwitchPoll", riskLevel |-> "medium", cooldown |-> 15,
      required |-> {"title", "choices", "duration"}],
     [name |-> "createTwitchPrediction", riskLevel |-> "medium", cooldown |-> 20,
      required |-> {"title", "outcomes", "duration"}],
     [name |-> "createTwitchClip", riskLevel |-> "low", cooldown |-> 5,
      required |-> {}],
     [name |-> "updateStreamTitle", riskLevel |-> "medium", cooldown |-> 30,
      required |-> {"title"}],
     [name |-> "updateStreamCategory", riskLevel |-> "medium", cooldown |-> 30,
      required |-> {"category"}] >>

ToolNames == {AVAILABLE_MCP_TOOLS[i].name : i \in DOMAIN AVAILABLE_MCP_TOOLS}

(* The key space of the cooldown Map: the oracle may name any string. *)
ActionNames == ToolNames \cup {"unknownTool"}

MkConfig(en, spam, tox, toxAction, chat, poll) ==
  [enabled |-> en,
   rules |-> [spamDetection |-> [enabled |-> spam],
              toxicityDetection |-> [enabled |-> tox, action |-> toxAction],
              chatEngagement |-> [enabled |-> chat],
              pollAutomation |-> [enabled |-> poll]]]

AllOn == MkConfig(TRUE, TRUE, TRUE, "timeout", TRUE, TRUE)
Disabled == MkConfig(FALSE, TRUE, TRUE, "timeout", TRUE, TRUE)
Configs == {AllOn, Disabled}

(* The configuration filter of getAvailableTools. *)
GateOpen(tool, cfg) ==
  IF tool.riskLevel = "high" /\ ~cfg.enabled THEN FALSE
  ELSE IF tool.name \in {"timeoutUser", "banUser"}
       THEN cfg.rules.spamDetection.enabled \/ cfg.rules.toxicityDetection.enabled
  ELSE IF tool.name = "createTwitchPoll" THEN cfg.rules.pollAutomation.enabled
  ELSE IF tool.name = "sendMessageToChat" THEN cfg.rules.chatEngagement.enabled
  ELSE TRUE

(* The cooldown filter with > in place of >=: a tool stays excluded at the
   very end of its cooldown. *)
CooldownElapsedStrict(tool, led, t) ==
  \/ led[tool.name] = NoTime
  \/ tool.cooldown = 0
  \/ t - led[tool.name] > tool.cooldown * MsPerMinute

(* The cooldown filter of getAvailableTools. *)
CooldownElapsed(tool, led, t) ==
  \/ led[tool.name] = NoTime
  \/ tool.cooldown = 0
  \/ t - led[tool.name] >= tool.cooldown * MsPerMinute

getAvailableTools(led, cfg, t) ==
  {AVAILABLE_MCP_TOOLS[i].name : i \in
     {j \in DOMAIN AVAILABLE_MCP_TOOLS :
        /\ CooldownElapsed(AVAILABLE_MCP_TOOLS[j], led, t)
        /\ GateOpen(AVAILABLE_MCP_TOOLS[j], cfg)}}

needsParameterGeneration(action) ==
  action \in {"sendMessageToChat", "createTwitchPoll", "createTwitchPrediction",
              "updateStreamTitle"}

getFallbackParameters(action, pattern) ==
  CASE action = "timeoutUser" -> {"usernameOrDescriptor", "reason"}
    [] action = "banUser" -> {"usernameOrDescriptor", "reason"}
    [] action = "sendMessageToChat" -> {"message"}
    [] action = "createTwitchPoll" -> {"title", "choices", "duration"}
    [] OTHER -> {}

---------------------------------------------------------------------------
(* Patterns, oracle answers and decisions *)

(* A ChatPattern: type, severity, confidence and users; user is users[0]. *)
ChatPattern(type, severity, confidence, user) ==
  [type |-> type, severity |-> severity, confidence |-> confidence, users |-> <<user>>]

(* A pattern about a message of u1. *)
Pattern(type, severity, confidence) == ChatPattern(type, severity, confidence, "u1")

Tox8 == Pattern("toxicity", 8, 90)
Tox4 == Pattern("toxicity", 4, 90)
Quest6 == Pattern("question", 6, 70)

(* What analyzeChat may hand back: the pattern lists the analyses run over. *)
PatternLists == {<<>>, <<Tox4>>, <<Tox8, Quest6>>, <<Tox4, Tox8>>}

Proposal(action, reason, confidence, targetPattern, parameters) ==
  [action |-> action, reason |-> reason, confidence |-> confidence,
   targetPattern |-> targetPattern, parameters |-> parameters]

PPoll == Proposal("createTwitchPoll", "viewers asked", 0, "none",
                  {"title", "choices", "duration"})
PTimeout == Proposal("timeoutUser", "toxic", 80, "toxicity", {"usernameOrDescriptor"})
PBan == Proposal("banUser", "toxic", 90, "toxicity", {"usernameOrDescriptor"})
PMsg == Proposal("sendMessageToChat", "answer", 90, "question", {})
PNoReason == Proposal("createTwitchClip", "none", 80, "none", {})
PNoAction == Proposal("none", "no tool named", 80, "toxicity", {})
PPred == Proposal("createTwitchPrediction", "viewers guess", 80, "question", {})

(* An answer of the oracle to the decision prompt: the call rejects, the text
   is not a JSON array, or it is an array of proposals. *)
Throws == [kind |-> "throw", proposals |-> <<>>]
Garbage == [kind |-> "garbage", proposals |-> <<>>]
Array(ps) == [kind |-> "array", proposals |-> ps]

(* An answer of the oracle to the parameter prompt. *)
ParamAnswers == {[kind |-> "throw", keys |-> {}],
                 [kind |-> "garbage", keys |-> {}],
                 [kind |-> "object", keys |-> {"message"}]}

(* A lookup that settles for the first pattern when none has the type. *)
FindPatternOrFirst(patterns, type) ==
  LET hits == {i \in DOMAIN patterns : patterns[i].type = type}
  IN IF patterns = <<>> THEN <<>>
     ELSE IF hits = {} THEN <<patterns[1]>>
     ELSE <<patterns[CHOOSE i \in hits : \A j \in hits : i <= j]>>

(* analysis.patterns.find(p => p.type === decision.targetPattern ...):
   the first pattern of that type, as a list of at most one. *)
FindPattern(patterns, type) ==
  LET hits == {i \in DOMAIN patterns : patterns[i].type = type}
  IN IF hits = {} THEN <<>>
     ELSE <<patterns[CHOOSE i \in hits : \A j \in hits : i <= j]>>

(* decisions.push({...}) of getAIDecisions; id stands for the object's identity. *)
MkDecision(cycle, k, p, parameters, target, t) ==
  [id |-> <<cycle, k>>,
   action |-> p.action,
   parameters |-> parameters,
   reason |-> p.reason,
   confidence |-> IF p.confidence = 0 THEN DefaultConfidence ELSE p.confidence,
   patterns |-> target,
   timestamp |-> t]

(* The loop of getAIDecisions from proposal raw[1] on, up to the next await
   (generateParameters) or to the end of the list. *)
RECURSIVE ProcessProposals(_, _, _, _, _)
ProcessProposals(cycle, raw, decisions, patterns, t) ==
  IF raw = <<>> THEN [raw |-> <<>>, decisions |-> decisions]
  ELSE LET p == Head(raw)
           target == FindPattern(patterns, p.targetPattern)
       IN IF p.action = "none" \/ p.reason = "none"
            THEN ProcessProposals(cycle, Tail(raw), decisions, patterns, t)
          ELSE IF target = <<>> /\ p.targetPattern # "none"
            THEN ProcessProposals(cycle, Tail(raw), decisions, patterns, t)
          ELSE IF target # <<>> /\ needsParameterGeneration(p.action)
            THEN [raw |-> raw, decisions |-> decisions]
          ELSE ProcessProposals(cycle, Tail(raw),
                 Append(decisions,
                        MkDecision(cycle, Len(decisions) + 1, p, p.parameters, target, t)),
                 patterns, t)

(* A stamping of the first returned decision only. *)
updateCooldownsFirstOnly(led, decisions, t) ==
  [a \in ActionNames |->
     IF decisions # <<>> /\ decisions[1].action = a THEN t ELSE led[a]]

(* updateCooldowns: every returned decision stamps its tool with now. *)
updateCooldowns(led, decisions, t) ==
  [a \in ActionNames |->
     IF \E i \in DOMAIN decisions : decisions[i].action = a THEN t ELSE led[a]]

(* The fallback rules with the spam floor one lower. *)
FallbackForLowerFloor(pattern, cfg) ==
  IF pattern.confidence < 70 THEN <<>>
  ELSE IF pattern.type = "toxicity" /\ pattern.severity >= 7
          /\ cfg.rules.toxicityDetection.enabled
    THEN <<[action |-> IF cfg.rules.toxicityDetection.action = "ban"
                       THEN "banUser" ELSE "timeoutUser",
            reason |-> "Fallback action for high toxicity"]>>
  ELSE IF pattern.type = "spam" /\ pattern.severity >= 5
          /\ cfg.rules.spamDetection.enabled
    THEN <<[action |-> "timeoutUser", reason |-> "Fallback action for spam"]>>
  ELSE <<>>

(* One pattern's fallback decision, if any. *)
FallbackFor(pattern, cfg) ==
  IF pattern.confidence < 70 THEN <<>>
  ELSE IF pattern.type = "toxicity" /\ pattern.severity >= 7
          /\ cfg.rules.toxicityDetection.enabled
    THEN <<[action |-> IF cfg.rules.toxicityDetection.action = "ban"
                       THEN "banUser" ELSE "timeoutUser",
            reason |-> "Fallback action for high toxicity"]>>
  ELSE IF pattern.type = "spam" /\ pattern.severity >= 6
          /\ cfg.rules.spamDetection.enabled
    THEN <<[action |-> "timeoutUser", reason |-> "Fallback action for spam"]>>
  ELSE <<>>

RECURSIVE fallbackDecisions(_, _, _, _, _)
fallbackDecisions(cycle, patterns, decisions, cfg, t) ==
  IF patterns = <<>> THEN decisions
  ELSE LET f == FallbackFor(Head(patterns), cfg)
       IN fallbackDecisions(cycle, Tail(patterns),
            IF f = <<>> THEN decisions
            ELSE Append(decisions,
                   [id |-> <<cycle, Len(decisions) + 1>>,
                    action |-> f[1].action,
                    parameters |-> {"usernameOrDescriptor", "reason"},
                    reason |-> f[1].reason,
                    confidence |-> FallbackConfidence,
                    patterns |-> <<Head(patterns)>>,
                    timestamp |-> t]),
            cfg, t)

---------------------------------------------------------------------------
(* autonomous-monitor.ts: the pipelines *)

(* A pipeline.  While it awaits analyzeChat, batch is the array the call was
   made with and prompted the number of message texts in its prompts: batch
   is <<>> as long as that array is the one recentMessages names, and holds
   the array's content once addChatMessages has bound recentMessages to a new
   one. *)
IdleTask ==
  [kind |-> "none", pc |-> "idle", cycle |-> 0, batch |-> <<>>, prompted |-> 0,
   patterns |-> <<>>, avail |-> {}, raw |-> <<>>, decisions |-> <<>>, idx |-> 0,
   pending |-> {}, results |-> <<>>, executed |-> <<>>]

(* The messages of the array pipeline t called analyzeChat with, as they are
   now. *)
BatchOf(t) == IF tasks[t].batch = <<>> THEN recentMessages ELSE tasks[t].batch[1]

InFlight(t) == tasks[t].pc \notin {"idle", "done"}

Free == {t \in Tasks : ~InFlight(t)}

(* The slot a new pipeline takes. *)
Slot == CHOOSE t \in Free : \A u \in Free : t <= u

(* The filter without its needsAttention disjunct. *)
RECURSIVE SignificantBySeverity(_, _)
SignificantBySeverity(patterns, needsAttention) ==
  IF patterns = <<>> THEN <<>>
  ELSE LET p == Head(patterns)
           rest == SignificantBySeverity(Tail(patterns), needsAttention)
       IN IF p.confidence >= 60 /\ p.severity >= 5 THEN <<p>> \o rest ELSE rest

(* significantPatterns of monitoringLoop *)
RECURSIVE Significant(_, _)
Significant(patterns, needsAttention) ==
  IF patterns = <<>> THEN <<>>
  ELSE LET p == Head(patterns)
           rest == Significant(Tail(patterns), needsAttention)
       IN IF p.confidence >= 60 /\ (p.severity >= 5 \/ needsAttention)
          THEN <<p>> \o rest ELSE rest

(* A determineAttentionNeeded whose toxicity threshold is one higher. *)
determineAttentionNeededStrict(patterns) ==
  \E i \in DOMAIN patterns :
    \/ patterns[i].type = "spam" /\ patterns[i].severity >= 7
    \/ patterns[i].type = "toxicity" /\ patterns[i].severity >= 7
    \/ Cardinality({j \in DOMAIN patterns : patterns[j].type = "spam"}) >= 2

(* determineAttentionNeeded of the pattern analyzer *)
determineAttentionNeeded(patterns) ==
  \E i \in DOMAIN patterns :
    \/ patterns[i].type = "spam" /\ patterns[i].severity >= 7
    \/ patterns[i].type = "toxicity" /\ patterns[i].severity >= 6
    \/ Cardinality({j \in DOMAIN patterns : patterns[j].type = "spam"}) >= 2

(* The calls of a loop that does not await: all remaining ones at once. *)
DispatchAll(task, i) == i..Len(task.decisions)

(* The executor calls executeDecisions has in flight once its loop reaches
   decision i: it awaits each call before it makes the next. *)

Dispatch(task, i) == {i}

(* What the caller of makeDecisions does with its result: monitoringLoop
   returns on no decision, executeDecisions calls the executor with the
   first one, and a bare makeDecisions call is over. *)
AfterMake(task, decisions) ==
  IF task.kind = "engine" \/ decisions = <<>>
  THEN [task EXCEPT !.pc = "done", !.raw = <<>>, !.decisions = decisions,
                    !.patterns = <<>>, !.avail = {}]
  ELSE LET called == [task EXCEPT !.pc = "executing", !.raw = <<>>,
                                  !.decisions = decisions, !.idx = 1]
       IN [called EXCEPT !.pending = Dispatch(called, 1)]

(* makeDecisions up to its first await: no candidate tool, no oracle call. *)
StartMake(kind, cycle, patterns) ==
  LET avail == getAvailableTools(ledger, config, now)
      task == [IdleTask EXCEPT !.kind = kind, !.cycle = cycle,
                               !.patterns = patterns, !.avail = avail]
  IN IF avail = {} THEN AfterMake(task, <<>>)
     ELSE [task EXCEPT !.pc = "deciding"]

(* getAIDecisions after the proposals from raw on were processed: it awaits
   generateParameters, or makeDecisions stamps the ledger and returns. *)
Resume(t, r) ==
  IF r.raw # <<>>
  THEN /\ tasks' = [tasks EXCEPT ![t] = [@ EXCEPT !.pc = "paramGen", !.raw = r.raw,
                                                  !.decisions = r.decisions]]
       /\ UNCHANGED ledger
  ELSE /\ tasks' = [tasks EXCEPT ![t] = AfterMake(tasks[t], r.decisions)]
       /\ ledger' = updateCooldowns(ledger, r.decisions, now)

(* The analyzer's per-user tracking (part_001). userMessageCounts maps a user
   name to its count and its list of timestamps; a user without entry is not
   in the domain. *)
TenMinutesMs == 600000
OneMinuteMs == 60000

(* cleanupOldData: timestamps older than ten minutes go, and with its last
   timestamp the user's entry. *)
cleanupOldData(umc, t) ==
  LET Kept(u) == SelectSeq(umc[u].timestamps, LAMBDA x : x >= t - TenMinutesMs)
  IN [u \in {v \in DOMAIN umc : Kept(v) # <<>>} |->
        [count |-> umc[u].count, timestamps |-> Kept(u)]]

(* updateUserTracking: for every message of the batch, in order, the user's
   entry is made if there is none, its count goes up by one and the timestamp
   of the message is pushed onto its list. *)
updateUserTracking(umc, messages) ==
  LET Of(u) == SelectSeq(messages, LAMBDA m : m.username = u)
      userData(u) == IF u \in DOMAIN umc THEN umc[u]
                     ELSE [count |-> 0, timestamps |-> <<>>]
  IN [u \in DOMAIN umc \cup {messages[i].username : i \in DOMAIN messages} |->
        [count |-> userData(u).count + Len(Of(u)),
         timestamps |-> userData(u).timestamps
                          \o [i \in DOMAIN Of(u) |-> Of(u)[i].timestamp]]]

(* getUserMessageCounts: per user the timestamps of the trailing minute, users
   without any left out. *)
getUserMessageCounts(umc, t) ==
  LET Recent(u) == Len(SelectSeq(umc[u].timestamps, LAMBDA x : x >= t - OneMinuteMs))
  IN [u \in {v \in DOMAIN umc : Recent(v) > 0} |-> Recent(u)]

(* analyzeChat before its first await: nothing for an empty batch, otherwise
   cleanupOldData and then updateUserTracking. *)
Track(umc, messages, t) ==
  IF messages = <<>> THEN umc
  ELSE updateUserTracking(cleanupOldData(umc, t), messages)

(* No continuation of an already settled promise is waiting: the event loop
   runs a timer callback or the continuation of an oracle, executor or file
   call only when the microtask queue is empty. *)
EventLoopTurn ==
  /\ \A k \in DOMAIN chores : chores[k].pc # "loading"
  /\ \A t \in Tasks : tasks[t].pc # "microtask"

(* A timer callback that takes the messages it analyses out of the window. *)
TickConsuming ==
  /\ EventLoopTurn
  /\ intervals > 0
  /\ cycles < MaxCycles
  /\ Free # {}
  /\ IF ~isActive \/ recentMessages = <<>>
     THEN UNCHANGED vars
     ELSE /\ tasks' = [tasks EXCEPT ![Slot] =
                         [IdleTask EXCEPT !.kind = "periodic", !.pc = "analyzing",
                                          !.cycle = cycles + 1,
                                          !.prompted = Len(recentMessages)]]
          /\ cycles' = cycles + 1
          /\ userMessageCounts' = Track(userMessageCounts, recentMessages, now)
          /\ recentMessages' = <<>>
          /\ UNCHANGED <<config, monitorVars, lifecycleVars, arrived, stateVars,
                         ledger, storeVars, ret, now>>

(* The setInterval callback: monitoringLoop up to its first await. *)
Tick ==
  /\ EventLoopTurn
  /\ intervals > 0
  /\ cycles < MaxCycles
  /\ Free # {}
  /\ IF ~isActive \/ recentMessages = <<>>
     THEN UNCHANGED vars
     ELSE /\ tasks' = [tasks EXCEPT ![Slot] =
                         [IdleTask EXCEPT !.kind = "periodic", !.pc = "analyzing",
                                          !.cycle = cycles + 1,
                                          !.prompted = Len(recentMessages)]]
          /\ cycles' = cycles + 1
          /\ userMessageCounts' = Track(userMessageCounts, recentMessages, now)
          /\ UNCHANGED <<config, monitorVars, lifecycleVars, windowVars, stateVars,
                         ledger, storeVars, ret, now>>

(* forceAnalysis up to `await this.patternAnalyzer.analyzeChat(...)`, where it
   hands its promise to the caller: the analysis of a window with messages
   waits for the oracle, that of an empty window has returned and the
   continuation of forceAnalysis is in the microtask queue. *)
forceAnalysis ==
  /\ cycles < MaxCycles
  /\ Free # {}
  /\ tasks' = [tasks EXCEPT ![Slot] =
                 [IdleTask EXCEPT !.kind = "force",
                                  !.pc = IF recentMessages = <<>> THEN "microtask"
                                         ELSE "analyzing",
                                  !.cycle = cycles + 1,
                                  !.prompted = Len(recentMessages)]]
  /\ cycles' = cycles + 1
  /\ userMessageCounts' = Track(userMessageCounts, recentMessages, now)
  /\ UNCHANGED <<config, monitorVars, lifecycleVars, windowVars, stateVars,
                 ledger, storeVars, ret, now>>

(* forceAnalysis after the analysis of an empty window: the caller's turn is
   over and makeDecisions is called with no pattern. *)
AnalysisSkipped(t) ==
  /\ tasks[t].pc = "microtask"
  /\ tasks' = [tasks EXCEPT ![t] = StartMake("force", tasks[t].cycle, <<>>)]
  /\ UNCHANGED <<config, monitorVars, lifecycleVars, inputVars, stateVars, ledger,
                 storeVars, ret, now, cycles>>

(* monitoringLoop and forceAnalysis after `await analyzeChat(...)`, the
   analysis having the patterns ps and the flag needsAttention: the periodic
   cycle stamps lastAnalysis, filters the patterns and returns when none is
   left; makeDecisions is called with the patterns that remain. *)
AnalysisHandled(t, ps, needsAttention) ==
  /\ EventLoopTurn
  /\ tasks[t].pc = "analyzing"
  /\ LET kept == IF tasks[t].kind = "periodic"
                 THEN Significant(ps, needsAttention) ELSE ps
     IN tasks' = [tasks EXCEPT ![t] =
                    IF tasks[t].kind = "periodic" /\ kept = <<>>
                    THEN [@ EXCEPT !.pc = "done", !.batch = <<>>, !.prompted = 0]
                    ELSE StartMake(tasks[t].kind, tasks[t].cycle, kept)]
  /\ lastAnalysis' = IF tasks[t].kind = "periodic" THEN now ELSE lastAnalysis
  /\ UNCHANGED <<config, monitorVars, lifecycleVars, inputVars, recentActions,
                 statistics, learningData, ledger, storeVars, now, cycles>>

(* analyzeChat resolves with the patterns ps, whatever else the analysis
   holds. *)
AnalysisReturns(t, ps) ==
  /\ AnalysisHandled(t, ps, determineAttentionNeeded(ps))
  /\ UNCHANGED ret

(* The oracle answers the decision prompt. *)
DecisionOracleReturns(t, answer) ==
  /\ EventLoopTurn
  /\ tasks[t].pc = "deciding"
  /\ IF answer.kind = "throw"
     THEN /\ tasks' = [tasks EXCEPT ![t] =
                         AfterMake(tasks[t],
                           fallbackDecisions(tasks[t].cycle, tasks[t].patterns, <<>>,
                                             config, now))]
          /\ UNCHANGED ledger
     ELSE Resume(t, ProcessProposals(tasks[t].cycle, answer.proposals, <<>>,
                                     tasks[t].patterns, now))
  /\ UNCHANGED <<config, monitorVars, lifecycleVars, inputVars, stateVars,
                 storeVars, ret, now, cycles>>

(* The oracle answers the parameter prompt of proposal raw[1]. *)
ParamOracleReturns(t, answer) ==
  /\ EventLoopTurn
  /\ tasks[t].pc = "paramGen"
  /\ LET p == Head(tasks[t].raw)
         target == FindPattern(tasks[t].patterns, p.targetPattern)
         generated == IF answer.kind = "object" THEN answer.keys
                      ELSE getFallbackParameters(p.action, target[1])
         d == MkDecision(tasks[t].cycle, Len(tasks[t].decisions) + 1, p,
                         p.parameters \cup generated, target, now)
     IN Resume(t, ProcessProposals(tasks[t].cycle, Tail(tasks[t].raw),
                                   Append(tasks[t].decisions, d),
                                   tasks[t].patterns, now))
  /\ UNCHANGED <<config, monitorVars, lifecycleVars, inputVars, stateVars,
                 storeVars, ret, now, cycles>>

---------------------------------------------------------------------------
(* pattern-analyzer.ts (src/unnamed/part_001) *)

(* The oracle's answer to one analysis prompt: the call rejects, the text does
   not parse, or it parses to a list of results (toxicity, spam, engagement)
   or to an object with a value (overallSentiment in hundredths,
   activityLevel) and, for the activity prompt, recommendations; an object
   without recommendations and one with the empty list give the same. *)
AThrow == [kind |-> "throw", results |-> <<>>, value |-> 0, recommendations |-> <<>>]
AGarbage == [kind |-> "garbage", results |-> <<>>, value |-> 0, recommendations |-> <<>>]
AList(rs) == [kind |-> "json", results |-> rs, value |-> 0, recommendations |-> <<>>]
AObject(v) == [kind |-> "json", results |-> <<>>, value |-> v, recommendations |-> <<>>]
AActivity(v, recs) == [kind |-> "json", results |-> <<>>, value |-> v, recommendations |-> recs]

(* One result of a list answer; username is "" when the oracle gave none. *)
ResultOf(messageIndex, score, username) ==
  [messageIndex |-> messageIndex, score |-> score, username |-> username]

Result(messageIndex, score) == ResultOf(messageIndex, score, "")

MkAnswers(tox, spam, eng, sent, act) ==
  [toxicity |-> tox, spam |-> spam, engagement |-> eng, sentiment |-> sent,
   activity |-> act]

AllThrow == MkAnswers(AThrow, AThrow, AThrow, AThrow, AThrow)

(* The answers the oracle may give to the five prompts of one analysis. *)
OracleAnswers ==
  {MkAnswers(tox, spam, eng, sent, act) :
     tox \in {AThrow, AGarbage, AList(<<Result(1, 8)>>), AList(<<Result(2, 4)>>)},
     spam \in {AThrow, AGarbage, AList(<<ResultOf(1, 7, "u3")>>)},
     eng \in {AThrow, AGarbage, AList(<<Result(1, 6)>>)},
     sent \in {AThrow, AGarbage, AObject(-50)},
     act \in {AThrow, AGarbage, AActivity(8, <<"Run a poll">>)}}

(* The answers the analyses run over: every prompt rejected, the sentiment
   prompt alone rejected, or at most one of the five answers not parseable. *)
AnalyzerAnswers ==
  {AllThrow} \cup
  {x \in OracleAnswers :
     /\ \A f \in DOMAIN x : x[f].kind = "throw" => f = "sentiment"
     /\ Cardinality({f \in DOMAIN x : x[f].kind # "json"}) <= 1}

(* The answers of which exactly one does not parse and four are well-formed. *)
OneUnparseable ==
  {x \in AnalyzerAnswers :
     /\ Cardinality({f \in DOMAIN x : x[f].kind = "garbage"}) = 1
     /\ Cardinality({f \in DOMAIN x : x[f].kind = "json"}) = 4}

(* analyzeToxicity, analyzeSpam, analyzeEngagement after the await: the parsed
   list, [] when the text does not parse. *)
ParsedList(answer) == IF answer.kind = "json" THEN answer.results ELSE <<>>

(* analyzeSentiment after the await: overallSentiment, 0 by default. *)
ParsedSentiment(answer) == IF answer.kind = "json" THEN answer.value ELSE 0

(* analyzeActivity after the await: the parsed object, and activityLevel 5
   with the recommendation "Monitor chat" when the text does not parse. *)
ParsedActivity(answer) ==
  IF answer.kind = "json"
  THEN [activityLevel |-> answer.value, recommendations |-> answer.recommendations]
  ELSE [activityLevel |-> 5, recommendations |-> <<"Monitor chat">>]

(* result.username || messages[messageIndex]?.username || 'unknown' *)
UserOf(result, messages) ==
  IF result.username # "" THEN result.username
  ELSE IF messages[result.messageIndex].username # ""
       THEN messages[result.messageIndex].username
  ELSE "unknown"

(* One loop of convertToPatterns: a pattern for each result at or above the
   floor whose messageIndex refers to a message of the batch. *)
RECURSIVE PatternsOf(_, _, _, _, _)
PatternsOf(results, type, floor, confidence, messages) ==
  IF results = <<>> THEN <<>>
  ELSE LET r == Head(results)
           rest == PatternsOf(Tail(results), type, floor, confidence, messages)
       IN IF /\ r.score >= floor
             /\ r.messageIndex - 1 >= 0
             /\ r.messageIndex - 1 < Len(messages)
          THEN <<ChatPattern(type, r.score, confidence, UserOf(r, messages))>> \o rest
          ELSE rest

(* A convertToPatterns whose engagement floor is one lower. *)
convertToPatternsLowFloor(messages, toxicityResults, spamResults, engagementResults) ==
  PatternsOf(toxicityResults, "toxicity", 4, 90, messages)
    \o PatternsOf(spamResults, "spam", 4, 80, messages)
    \o PatternsOf(engagementResults, "question", 5, 70, messages)

convertToPatterns(messages, toxicityResults, spamResults, engagementResults) ==
  PatternsOf(toxicityResults, "toxicity", 4, 90, messages)
    \o PatternsOf(spamResults, "spam", 4, 80, messages)
    \o PatternsOf(engagementResults, "question", 6, 70, messages)

(* A recommendation: the rule that gives it and what its text is about, the
   user it names or the recommendation of the activity answer it passes on. *)
Recommendation(rule, about) == [rule |-> rule, about |-> about]

(* patterns.reduce((prev, curr) => prev.severity > curr.severity ? prev : curr):
   the last of the patterns of the highest severity. *)
Highest(patterns) ==
  patterns[CHOOSE i \in DOMAIN patterns :
             /\ \A j \in DOMAIN patterns : patterns[j].severity <= patterns[i].severity
             /\ \A j \in DOMAIN patterns :
                  j > i => patterns[j].severity < patterns[i].severity]

(* generateAIRecommendations: in this order one for the most toxic pattern,
   one for the worst spam pattern, one for the first question, one for a
   sentiment below -0.3 or above 0.5, and the recommendations of the activity
   result. *)
generateAIRecommendations(patterns, sentimentResult, activityResult) ==
  LET Of(type) == SelectSeq(patterns, LAMBDA q : q.type = type)
      recommendations ==
        (IF Of("toxicity") # <<>>
         THEN <<Recommendation("toxicity", Highest(Of("toxicity")).users[1])>>
         ELSE <<>>)
        \o (IF Of("spam") # <<>>
            THEN <<Recommendation("spam", Highest(Of("spam")).users[1])>>
            ELSE <<>>)
        \o (IF Of("question") # <<>> THEN <<Recommendation("engagement", "")>>
            ELSE <<>>)
        \o (IF sentimentResult < -30 THEN <<Recommendation("negative", "")>>
            ELSE IF sentimentResult > 50 THEN <<Recommendation("positive", "")>>
            ELSE <<>>)
        \o [i \in DOMAIN activityResult.recommendations |->
              Recommendation("activity", activityResult.recommendations[i])]
  IN IF recommendations # <<>> THEN recommendations
     ELSE <<Recommendation("healthy", "")>>

(* A fallbackAnalysis that reports the batch as toxic. *)
fallbackAnalysisFlagging(messages) ==
  [patterns |-> <<Pattern("toxicity", 8, 90)>>, overallSentiment |-> 0,
   activityLevel |-> IF Len(messages) < 10 THEN Len(messages) ELSE 10,
   needsAttention |-> TRUE, recommendations |-> <<Recommendation("unavailable", "")>>]

fallbackAnalysis(messages) ==
  [patterns |-> <<>>, overallSentiment |-> 0,
   activityLevel |-> IF Len(messages) < 10 THEN Len(messages) ELSE 10,
   needsAttention |-> FALSE, recommendations |-> <<Recommendation("unavailable", "")>>]

(* An analyzeChat that gives the whole analysis up when one answer does not
   parse. *)
analyzeChatAllOrNothing(messages, answers) ==
  IF \E f \in DOMAIN answers : answers[f].kind # "json"
  THEN fallbackAnalysis(messages)
  ELSE LET patterns == convertToPatterns(messages, answers.toxicity.results,
                                         answers.spam.results,
                                         answers.engagement.results)
       IN [patterns |-> patterns,
           overallSentiment |-> answers.sentiment.value,
           activityLevel |-> answers.activity.value,
           needsAttention |-> determineAttentionNeeded(patterns),
           recommendations |->
             generateAIRecommendations(patterns, answers.sentiment.value,
                                       ParsedActivity(answers.activity))]

(* analyzeChat from the settling of Promise.all on (a call on an empty array
   has returned before, see forceAnalysis): the five analyses run under
   Promise.all, so one rejected oracle call rejects them all and the catch
   returns fallbackAnalysis; messages is the array of the call as it is
   then. *)
analyzeChat(messages, answers) ==
  IF \E f \in DOMAIN answers : answers[f].kind = "throw"
  THEN fallbackAnalysis(messages)
  ELSE LET patterns == convertToPatterns(messages, ParsedList(answers.toxicity),
                                         ParsedList(answers.spam),
                                         ParsedList(answers.engagement))
       IN [patterns |-> patterns,
           overallSentiment |-> ParsedSentiment(answers.sentiment),
           activityLevel |-> ParsedActivity(answers.activity).activityLevel,
           needsAttention |-> determineAttentionNeeded(patterns),
           recommendations |->
             generateAIRecommendations(patterns, ParsedSentiment(answers.sentiment),
                                       ParsedActivity(answers.activity))]

(* The analyzeChat a pipeline awaits returns, the oracle having answered its
   five prompts (between the answers the analyzer only parses); ret holds
   the analysis, the answers it was made from and the number of message texts
   the prompts were made of. *)
AnalyzerResolves(t, answers) ==
  LET analysis == analyzeChat(BatchOf(t), answers)
  IN /\ AnalysisHandled(t, analysis.patterns, analysis.needsAttention)
     /\ ret' = [op |-> "analyzeChat", ts |-> tasks[t].prompted,
                arg |-> <<analysis, answers>>, ok |-> TRUE]

(* The date part of a log file name, toISOString().split('T')[0], as the
   number of the UTC day. *)
DayOf(ts) == ts \div DayMs

(* A log file name `${prefix}-${date}.md`; the prefix is the list of its
   hyphen-separated words ("user-feedback" is <<"user", "feedback">>). *)
FileName(prefix, ts) == [prefix |-> prefix, day |-> DayOf(ts)]

(* fs.appendFile: one more block in the file, which is created if absent. *)
appendFile(fs, name) ==
  IF name \in DOMAIN fs THEN [fs EXCEPT ![name] = @ + 1] ELSE fs @@ (name :> 1)

(* The three appenders catch a rejection of fs.appendFile and log it: in a
   directory that does not exist (ENOENT) nothing is written. *)
saveFeedbackEntry(fs, entry) ==
  IF feedbackDir THEN appendFile(fs, FileName(<<"feedback">>, entry.timestamp)) ELSE fs

appendToActionLog(fs, d) ==
  IF feedbackDir THEN appendFile(fs, FileName(<<"actions">>, d.timestamp)) ELSE fs

appendToFeedbackLog(fs, entry) ==
  IF feedbackDir THEN appendFile(fs, FileName(<<"user", "feedback">>, entry.timestamp))
  ELSE fs

(* No log file has reached the bound of the model. *)
RoomToAppend == \A name \in DOMAIN files : files[name] < MaxBlocks

(* recordAction: the entry pushed on recentFeedback. *)
Entry(d) ==
  [timestamp |-> d.timestamp, actionTaken |-> d, userFeedback |-> <<>>, outcome |-> <<>>]

recordAction(store, d) == Append(store, Entry(d))

(* recordAction: what it appends to the feedback file and the action log. *)
recordActionFiles(fs, d) == appendToActionLog(saveFeedbackEntry(fs, Entry(d)), d)

(* result.success of the executor's answer; a rejected call has no result. *)
Succeeded(outcome) == outcome = "ok"

(* The action most frequent in recent, the first inserted among equals
   (Map insertion order, stable sort). *)
MostCommon(recent) ==
  LET acts == {recent[i].action : i \in DOMAIN recent}
      Count(a) == Cardinality({i \in DOMAIN recent : recent[i].action = a})
      First(a) == CHOOSE i \in DOMAIN recent :
                    /\ recent[i].action = a
                    /\ \A j \in DOMAIN recent : recent[j].action = a => i <= j
  IN CHOOSE a \in acts :
       \A b \in acts : \/ Count(a) > Count(b)
                       \/ Count(a) = Count(b) /\ First(a) <= First(b)

RECURSIVE SumConfidence(_)
SumConfidence(ds) == IF ds = <<>> THEN 0 ELSE Head(ds).confidence + SumConfidence(Tail(ds))

(* updateStatistics(executed), called before executed joins recentActions;
   averageConfidence is the fraction <<sum, count>>. *)
updateStatistics(stats, executed, recent) ==
  IF executed = <<>> THEN stats
  ELSE [stats EXCEPT
          !.actionsToday = @ + Len(executed),
          !.averageConfidence = <<SumConfidence(executed), Len(executed)>>,
          !.mostCommonAction = IF recent = <<>> THEN @ ELSE MostCommon(recent)]

(* The list without its element k. *)
RemoveAt(seq, k) == SubSeq(seq, 1, k - 1) \o SubSeq(seq, k + 1, Len(seq))

(* The last n elements: slice(-n). *)
LastN(seq, n) ==
  IF Len(seq) <= n THEN seq ELSE SubSeq(seq, Len(seq) - n + 1, Len(seq))

(* A loop that a failed call (the task is still at "executing") breaks. *)
LoopEndsOnFailure(task) == task.idx >= Len(task.decisions) \/ task.pc = "executing"

(* The for loop of executeDecisions is over: a failed call ends one iteration,
   not the loop. *)

LoopEnds(task) == task.idx >= Len(task.decisions)

(* An executeDecisions out of which a failed call's exception escapes when the
   loop is over: the cycle is left where it failed. *)
ContinueRethrows(t, task) ==
  IF ~LoopEnds(task)
  THEN /\ tasks' = [tasks EXCEPT ![t] =
                      [task EXCEPT !.pc = "executing", !.idx = @ + 1,
                                   !.pending = @ \cup Dispatch(task, task.idx + 1)]]
       /\ UNCHANGED <<statistics, recentActions>>
  ELSE /\ tasks' = [tasks EXCEPT ![t] =
                      IF \E k \in DOMAIN task.results : ~task.results[k][2]
                      THEN [task EXCEPT !.pc = "failed"]
                      ELSE [task EXCEPT !.pc = "done", !.patterns = <<>>, !.avail = {}]]
       /\ IF task.kind = "periodic" /\ task.executed # <<>>
          THEN /\ statistics' = updateStatistics(statistics, task.executed, recentActions)
               /\ recentActions' = LastN(recentActions \o task.executed, RecentActionsCap)
          ELSE UNCHANGED <<statistics, recentActions>>

(* executeDecisions after decision idx was dealt with: the next executor call,
   or the return to the caller, which for monitoringLoop updates the
   statistics and recentActions. *)
Continue(t, task) ==
  IF ~LoopEnds(task)
  THEN /\ tasks' = [tasks EXCEPT ![t] =
                      [task EXCEPT !.pc = "executing", !.idx = @ + 1,
                                   !.pending = @ \cup Dispatch(task, task.idx + 1)]]
       /\ UNCHANGED <<statistics, recentActions>>
  ELSE /\ tasks' = [tasks EXCEPT ![t] =
                      [task EXCEPT !.pc = "done", !.patterns = <<>>, !.avail = {}]]
       /\ IF task.kind = "periodic" /\ task.executed # <<>>
          THEN /\ statistics' = updateStatistics(statistics, task.executed, recentActions)
               /\ recentActions' = LastN(recentActions \o task.executed, RecentActionsCap)
          ELSE UNCHANGED <<statistics, recentActions>>

(* The executor call for decision i resolves or rejects. A success is pushed
   on executed and recordAction runs up to its first await: the entry is on
   recentFeedback and the append to the feedback file is under way. *)
ExecutorReturns(t, i, outcome) ==
  /\ EventLoopTurn
  /\ tasks[t].pc = "executing"
  /\ i \in tasks[t].pending
  /\ LET d == tasks[t].decisions[i]
         answered == [tasks[t] EXCEPT !.pending = @ \ {i},
                                      !.results = Append(@, <<i, Succeeded(outcome)>>)]
     IN IF Succeeded(outcome)
        THEN /\ tasks' = [tasks EXCEPT ![t] =
                            [answered EXCEPT !.pc = "savingEntry",
                                             !.executed = Append(@, d)]]
             /\ recentFeedback' = recordAction(recentFeedback, d)
             /\ UNCHANGED <<files, feedbackDir, statistics, recentActions>>
        ELSE /\ Continue(t, answered)
             /\ UNCHANGED storeVars
  /\ UNCHANGED <<config, monitorVars, lifecycleVars, inputVars, lastAnalysis, learningData,
                 ledger, ret, now, cycles>>

(* recordAction: fs.appendFile of saveFeedbackEntry is over and the append to
   the action log is under way. *)
EntrySaved(t) ==
  /\ EventLoopTurn
  /\ tasks[t].pc = "savingEntry"
  /\ files' = saveFeedbackEntry(files, Entry(tasks[t].decisions[tasks[t].idx]))
  /\ tasks' = [tasks EXCEPT ![t] = [@ EXCEPT !.pc = "loggingAction"]]
  /\ UNCHANGED <<config, monitorVars, lifecycleVars, inputVars, stateVars, ledger,
                 recentFeedback, feedbackDir, ret, now, cycles>>

(* recordAction: fs.appendFile of appendToActionLog is over, recordAction
   returns and executeDecisions sets the timer of its pause. *)
ActionLogged(t) ==
  /\ EventLoopTurn
  /\ tasks[t].pc = "loggingAction"
  /\ files' = appendToActionLog(files, tasks[t].decisions[tasks[t].idx])
  /\ tasks' = [tasks EXCEPT ![t] = [@ EXCEPT !.pc = "pausing"]]
  /\ UNCHANGED <<config, monitorVars, lifecycleVars, inputVars, stateVars, ledger,
                 recentFeedback, feedbackDir, ret, now, cycles>>

(* The pause after a recorded action (setTimeout of one second) is over. *)
PauseDone(t) ==
  /\ EventLoopTurn
  /\ tasks[t].pc = "pausing"
  /\ Continue(t, tasks[t])
  /\ UNCHANGED <<config, monitorVars, lifecycleVars, inputVars, lastAnalysis, learningData,
                 ledger, storeVars, ret, now, cycles>>

---------------------------------------------------------------------------
(* autonomous-monitor.ts: lifecycle *)

(* stop() without its clearInterval. *)
TimersAfterStopLeaked(timer, n) == n

(* clearInterval(this.monitoringTimer) of stop(): the live timers left. *)

TimersAfterStop(timer, n) == IF timer THEN n - 1 ELSE n

(* The midnight that follows t: new Date(year, month, date + 1), the local
   time zone being UTC. *)
NextMidnight(t) == (DayOf(t) + 1) * DayMs

(* A call past its first await: its kind (the method called), where it
   waits, the day of its report (date = new Date()), the instant cleanup()
   took its cutoff from, the files cleanup() is still to unlink, the entry of
   recentFeedback the call holds (its index, 0 for none) and the result it
   has computed and is to return. *)
Chore(kind, t) ==
  [kind |-> kind, pc |-> "loading", day |-> DayOf(t), at |-> NoTime, victims |-> {},
   entry |-> 0, arg |-> <<>>]

(* start() without its isRunning guard. *)
StartUnguarded ==
  /\ config.enabled /\ maintenance < MaxStarts
  /\ isRunning' = TRUE
  /\ isActive' = TRUE
  /\ monitoringTimer' = TRUE
  /\ intervals' = intervals + 1
  /\ maintenance' = maintenance + 1
  /\ maintenanceDue' = Append(maintenanceDue, NextMidnight(now))
  /\ lifecycleLog' = "Autonomous monitoring started"
  /\ UNCHANGED chores
  /\ UNCHANGED <<config, inputVars, stateVars, ledger, storeVars, ret, now,
                 cycles, tasks>>

(* start() returns early, or fewer than n schedules are armed. *)
StartAllowed(n) == isRunning \/ ~config.enabled \/ maintenance < n

start ==
  /\ StartAllowed(MaxStarts)
  /\ IF isRunning
     THEN /\ lifecycleLog' = "Autonomous monitor is already running"
          /\ UNCHANGED <<monitorVars, chores>>
     ELSE IF ~config.enabled
     THEN /\ lifecycleLog' = "Autonomous monitoring is disabled in configuration"
          /\ UNCHANGED <<monitorVars, chores>>
     ELSE /\ isRunning' = TRUE
          /\ isActive' = TRUE
          /\ monitoringTimer' = TRUE
          /\ intervals' = intervals + 1
          /\ maintenance' = maintenance + 1
          /\ maintenanceDue' = Append(maintenanceDue, NextMidnight(now))
          /\ lifecycleLog' = "Autonomous monitoring started"
          /\ UNCHANGED chores
  /\ UNCHANGED <<config, inputVars, stateVars, ledger, storeVars, ret, now,
                 cycles, tasks>>

(* A stop() that clears the interval and keeps the handle. *)
StopNowKeepsHandle ==
  /\ isRunning' = FALSE
  /\ isActive' = FALSE
  /\ intervals' = TimersAfterStop(monitoringTimer, intervals)
  /\ monitoringTimer' = monitoringTimer
  /\ lifecycleLog' = "Stopping autonomous chat monitoring..."
  /\ chores' = Append(chores, Chore("stop", now))
  /\ UNCHANGED <<maintenance, maintenanceDue>>

(* stop() up to its await of generateDailyReport(): the flags are cleared,
   the interval is cancelled, and the call waits for the report before it
   writes its last line. *)
StopNow ==
  /\ isRunning' = FALSE
  /\ isActive' = FALSE
  /\ intervals' = TimersAfterStop(monitoringTimer, intervals)
  /\ monitoringTimer' = FALSE
  /\ lifecycleLog' = "Stopping autonomous chat monitoring..."
  /\ chores' = Append(chores, Chore("stop", now))
  /\ UNCHANGED <<maintenance, maintenanceDue>>

stop ==
  /\ IF ~isRunning
     THEN /\ lifecycleLog' = "Autonomous monitor is not running"
          /\ UNCHANGED <<monitorVars, chores>>
     ELSE StopNow
  /\ UNCHANGED <<config, inputVars, stateVars, ledger, storeVars, ret, now,
                 cycles, tasks>>

(* An updateConfig that records the configuration and the active flag and
   leaves a running monitor running. *)
updateConfigKeepsRunning(c) ==
  /\ config' = c
  /\ isActive' = c.enabled
  /\ UNCHANGED <<isRunning, monitoringTimer, intervals, maintenance, maintenanceDue,
                 lifecycleVars>>
  /\ UNCHANGED <<inputVars, stateVars, ledger, storeVars, ret, now, cycles, tasks>>

updateConfig(c) ==
  /\ config' = c
  /\ IF ~c.enabled /\ isRunning
     THEN StopNow
     ELSE /\ isActive' = c.enabled
          /\ UNCHANGED <<isRunning, monitoringTimer, intervals, maintenance,
                         maintenanceDue, lifecycleVars>>
  /\ UNCHANGED <<inputVars, stateVars, ledger, storeVars, ret, now, cycles, tasks>>

Users == {"u1"}

(* addChatMessages: push(...messages) onto the array, which the analyses
   under way were called with; past the capacity recentMessages is bound to a
   new array, slice(-100), and the old one stays as pushed with the analyses
   that hold it. *)
PushMessages(msgs) ==
  LET pushed == recentMessages \o msgs
  IN /\ recentMessages' = LastN(pushed, WindowCap)
     /\ arrived' = arrived + Len(msgs)
     /\ tasks' = [t \in Tasks |->
                    IF /\ Len(pushed) > WindowCap
                       /\ tasks[t].pc = "analyzing"
                       /\ tasks[t].batch = <<>>
                    THEN [tasks[t] EXCEPT !.batch = <<pushed>>]
                    ELSE tasks[t]]
     /\ UNCHANGED <<config, monitorVars, lifecycleVars, userMessageCounts, stateVars,
                    ledger, storeVars, ret, now, cycles>>

addChatMessages(msgs) ==
  /\ arrived + Len(msgs) <= MaxMessages
  /\ PushMessages(msgs)

(* Time passes up to one of the instants. *)
Advance(instants) ==
  /\ EventLoopTurn
  /\ \E t \in instants : t > now /\ now' = t
  /\ UNCHANGED <<config, monitorVars, lifecycleVars, inputVars, stateVars, ledger,
                 storeVars, ret, cycles, tasks>>

---------------------------------------------------------------------------
(* feedback-recorder.ts *)

Abs(x) == IF x < 0 THEN -x ELSE x

(* The lookup with <= in place of <: an entry exactly 60 seconds away matches. *)
FindEntryInclusive(store, ts) ==
  LET hits == {i \in DOMAIN store : Abs(store[i].timestamp - ts) <= MatchWindowMs}
  IN IF hits = {} THEN 0 ELSE CHOOSE i \in hits : \A j \in hits : i <= j

(* recentFeedback.find(e => |e.timestamp - ts| < 60000): the index of the
   first such entry in insertion order, 0 when there is none. *)
FindEntry(store, ts) ==
  LET hits == {i \in DOMAIN store : Abs(store[i].timestamp - ts) < MatchWindowMs}
  IN IF hits = {} THEN 0 ELSE CHOOSE i \in hits : \A j \in hits : i <= j

NoCall == [op |-> "none", ts |-> 0, arg |-> <<>>, ok |-> FALSE]

Feedbacks == {[rating |-> 5, comment |-> "none", source |-> "chat"],
              [rating |-> 1, comment |-> "bad", source |-> "manual"]}

Outcomes == {[effective |-> TRUE, chatResponse |-> "none", sideEffects |-> <<>>],
             [effective |-> FALSE, chatResponse |-> "none", sideEffects |-> <<>>]}

FeedbackInstants == {0, 30000, 60000}

(* Fewer recorder calls than the bound of the model are suspended. *)
RoomToCall == Len(chores) < MaxCalls

(* The call returns its promise to the caller at the await it has reached;
   `at` is the instant cleanup and generateLearningInsights took from the
   clock. *)
Suspend(kind, pc, i, arg) ==
  chores' = Append(chores,
                   [kind |-> kind, pc |-> pc, day |-> NoTime,
                    at |-> IF kind \in {"cleanup", "generateLearningInsights"}
                           THEN now ELSE NoTime,
                    victims |-> {}, entry |-> i, arg |-> arg])

(* A recordAction call of a decision made now, up to the await of
   saveFeedbackEntry: the entry is pushed. *)
RecordActionWithin(max, action, patterns) ==
  /\ Len(recentFeedback) < max
  /\ RoomToCall
  /\ LET d == [id |-> <<0, Len(recentFeedback) + 1>>, action |-> action,
               parameters |-> {}, reason |-> "manual",
               confidence |-> DefaultConfidence, patterns |-> patterns,
               timestamp |-> now]
     IN recentFeedback' = recordAction(recentFeedback, d)
  /\ Suspend("recordAction", "savingEntry", Len(recentFeedback) + 1, <<>>)
  /\ ret' = NoCall
  /\ UNCHANGED <<config, monitorVars, lifecycleLog, inputVars, stateVars, ledger,
                 files, feedbackDir, now, cycles, tasks>>

RecordActionCall(action, patterns) == RecordActionWithin(MaxRecords, action, patterns)

(* recordAction: fs.appendFile of saveFeedbackEntry is over and the append to
   the action log is under way. *)
RecordSaved(k) ==
  /\ EventLoopTurn
  /\ chores[k].pc = "savingEntry"
  /\ files' = saveFeedbackEntry(files, recentFeedback[chores[k].entry])
  /\ chores' = [chores EXCEPT ![k] = [@ EXCEPT !.pc = "loggingAction"]]
  /\ UNCHANGED <<config, monitorVars, lifecycleLog, inputVars, stateVars, ledger,
                 recentFeedback, feedbackDir, ret, now, cycles, tasks>>

(* recordAction: fs.appendFile of appendToActionLog is over and the call
   returns. *)
RecordLogged(k) ==
  /\ EventLoopTurn
  /\ chores[k].pc = "loggingAction"
  /\ files' = appendToActionLog(files, recentFeedback[chores[k].entry].actionTaken)
  /\ chores' = RemoveAt(chores, k)
  /\ UNCHANGED <<config, monitorVars, lifecycleLog, inputVars, stateVars, ledger,
                 recentFeedback, feedbackDir, ret, now, cycles, tasks>>

(* An addUserFeedback that puts a fresh entry with the feedback in place of the
   one found. *)
AttachFeedbackResetting(ts, fb) ==
  LET i == FindEntry(recentFeedback, ts)
  IN IF i # 0
     THEN /\ recentFeedback' =
               [recentFeedback EXCEPT ![i] =
                  [Entry(recentFeedback[i].actionTaken) EXCEPT !.userFeedback = <<fb>>]]
          /\ UNCHANGED ret
     ELSE /\ UNCHANGED recentFeedback
          /\ ret' = [op |-> "addUserFeedback", ts |-> ts, arg |-> <<>>, ok |-> FALSE]

(* FeedbackRecorder.addUserFeedback up to its first await: the entry found
   carries the feedback, or the call returns false. *)
AttachFeedback(ts, fb) ==
  LET i == FindEntry(recentFeedback, ts)
  IN IF i # 0
     THEN /\ recentFeedback' = [recentFeedback EXCEPT ![i].userFeedback = <<fb>>]
          /\ UNCHANGED ret
     ELSE /\ UNCHANGED recentFeedback
          /\ ret' = [op |-> "addUserFeedback", ts |-> ts, arg |-> <<>>, ok |-> FALSE]

(* A call that found its entry waits for updateFeedbackEntry. *)
AwaitUpdate(kind, ts) ==
  IF FindEntry(recentFeedback, ts) # 0
  THEN Suspend(kind, "updatingEntry", FindEntry(recentFeedback, ts), <<>>)
  ELSE UNCHANGED chores

addUserFeedback(ts, fb) ==
  /\ RoomToAppend
  /\ RoomToCall
  /\ AttachFeedback(ts, fb)
  /\ AwaitUpdate("addUserFeedback", ts)
  /\ UNCHANGED <<config, monitorVars, lifecycleLog, inputVars, stateVars, ledger,
                 files, feedbackDir, now, cycles, tasks>>

(* FeedbackRecorder.recordOutcome up to its await: the entry found carries
   the outcome, or the call returns false. *)
recordOutcome(ts, oc) ==
  /\ RoomToAppend
  /\ RoomToCall
  /\ LET i == FindEntry(recentFeedback, ts)
     IN IF i # 0
        THEN /\ recentFeedback' = [recentFeedback EXCEPT ![i].outcome = <<oc>>]
             /\ UNCHANGED ret
        ELSE /\ UNCHANGED recentFeedback
             /\ ret' = [op |-> "recordOutcome", ts |-> ts, arg |-> <<>>, ok |-> FALSE]
  /\ AwaitUpdate("recordOutcome", ts)
  /\ UNCHANGED <<config, monitorVars, lifecycleLog, inputVars, stateVars, ledger,
                 files, feedbackDir, now, cycles, tasks>>

(* A call that found its entry returns true. *)
Returned(k) ==
  [op |-> IF chores[k].kind = "recordOutcome" THEN "recordOutcome" ELSE "addUserFeedback",
   ts |-> NoTime, arg |-> <<>>, ok |-> TRUE]

(* updateFeedbackEntry: fs.appendFile of saveFeedbackEntry is over.
   recordOutcome returns true; addUserFeedback goes on to appendToFeedbackLog. *)
EntryUpdated(k) ==
  /\ EventLoopTurn
  /\ chores[k].pc = "updatingEntry"
  /\ files' = saveFeedbackEntry(files, recentFeedback[chores[k].entry])
  /\ IF chores[k].kind = "recordOutcome"
     THEN /\ ret' = Returned(k)
          /\ chores' = RemoveAt(chores, k)
     ELSE /\ chores' = [chores EXCEPT ![k] = [@ EXCEPT !.pc = "loggingFeedback"]]
          /\ UNCHANGED ret
  /\ UNCHANGED <<config, monitorVars, lifecycleLog, inputVars, stateVars, ledger,
                 recentFeedback, feedbackDir, now, cycles, tasks>>

(* getRecentFeedback(hours): the entries not older than the cutoff, in order. *)
getRecentFeedback(store, hours, t) ==
  SelectSeq(store, LAMBDA e : e.timestamp >= t - hours * HourMs)

(* The success test of calculateSuccessMetrics, applied to the entries that
   carry userFeedback. *)
CountsAsSuccess(e) ==
  /\ e.userFeedback # <<>>
  /\ \/ e.userFeedback[1].rating >= 3
     \/ e.outcome # <<>> /\ e.outcome[1].effective

(* calculateSuccessMetrics().successRate as the fraction <<successes, divisor>>. *)
successRate(store, t) ==
  LET recentEntries == getRecentFeedback(store, 168, t)
      totalActions == Len(recentEntries)
  IN << Cardinality({i \in DOMAIN recentEntries : CountsAsSuccess(recentEntries[i])}),
        IF totalActions > 1 THEN totalActions ELSE 1 >>

(* A calculateSuccessMetrics call; ret holds the successRate it returned. *)
calculateSuccessMetrics ==
  /\ ret' = [op |-> "calculateSuccessMetrics", ts |-> NoTime,
             arg |-> <<successRate(recentFeedback, now)>>, ok |-> TRUE]
  /\ UNCHANGED <<config, monitorVars, lifecycleVars, inputVars, stateVars, ledger,
                 storeVars, now, cycles, tasks>>

(* file.match(/^\w+-\d{4}-\d{2}-\d{2}\.md$/): one run of word characters, a
   hyphen and the date.  A word character is a letter, a digit or an
   underscore, so the run cannot span the hyphen of a two-word prefix. *)
MatchesLogName(name) == Len(name.prefix) = 1

(* new Date(dateMatch[1]) < cutoffDate: the file's date is the midnight that
   starts its day. *)
BeforeCutoff(name, t) == name.day * DayMs < t - RetentionDays * 24 * HourMs

(* FeedbackRecorder.cleanup up to `await fs.readdir`: the cutoff is taken from
   the clock. *)
cleanup ==
  /\ RoomToCall
  /\ Suspend("cleanup", "readingDir", 0, <<>>)
  /\ UNCHANGED <<config, monitorVars, lifecycleLog, inputVars, stateVars, ledger,
                 storeVars, ret, now, cycles, tasks>>

(* `${pattern.type}-${Math.floor(pattern.severity / 2)}` *)
patternKey(pattern) == <<pattern.type, pattern.severity \div 2>>

(* The number of patterns with key k on the entries of `entries` whose
   userFeedback rating is (successful) or is not (failed) at least 3. *)
RECURSIVE Increments(_, _, _)
Increments(entries, k, successful) ==
  IF entries = <<>> THEN 0
  ELSE LET e == Head(entries)
           hit == /\ e.userFeedback # <<>>
                  /\ (e.userFeedback[1].rating >= 3) = successful
       IN (IF hit
           THEN Cardinality({j \in DOMAIN e.actionTaken.patterns :
                               patternKey(e.actionTaken.patterns[j]) = k})
           ELSE 0)
          + Increments(Tail(entries), k, successful)

(* The keys of the patterns on the entries of store. *)
PatternKeys(store) ==
  UNION {{patternKey(store[i].actionTaken.patterns[j]) :
            j \in DOMAIN store[i].actionTaken.patterns} : i \in DOMAIN store}

(* One of the two Maps of learningData after updateLearningFromFeedback. *)
Learned(map, store, successful, t) ==
  LET entries == getRecentFeedback(store, 24, t)
      keys == {k \in PatternKeys(entries) : Increments(entries, k, successful) > 0}
  IN [k \in DOMAIN map \cup keys |->
        (IF k \in DOMAIN map THEN map[k] ELSE 0) + Increments(entries, k, successful)]

(* updateLearningFromFeedback on statistics and learningData. *)
updateLearningFromFeedback(store, t) ==
  /\ statistics' = [statistics EXCEPT !.successRate = successRate(store, t)]
  /\ learningData' =
       [successfulPatterns |-> Learned(learningData.successfulPatterns, store, TRUE, t),
        failedPatterns |-> Learned(learningData.failedPatterns, store, FALSE, t)]

(* No learning counter has reached the bound of the model. *)
RoomToLearn ==
  /\ \A k \in DOMAIN learningData.successfulPatterns :
       learningData.successfulPatterns[k] < MaxLearned
  /\ \A k \in DOMAIN learningData.failedPatterns :
       learningData.failedPatterns[k] < MaxLearned

(* AutonomousMonitor.addUserFeedback up to the first await of the recorder's
   addUserFeedback, which it awaits. *)
monitorAddUserFeedback(ts, fb) ==
  /\ RoomToAppend /\ RoomToLearn
  /\ RoomToCall
  /\ AttachFeedback(ts, fb)
  /\ AwaitUpdate("monitorAddUserFeedback", ts)
  /\ UNCHANGED <<config, monitorVars, lifecycleLog, inputVars, stateVars, ledger,
                 files, feedbackDir, now, cycles, tasks>>

(* addUserFeedback: fs.appendFile of appendToFeedbackLog is over and the call
   returns true; the monitor's addUserFeedback then runs
   updateLearningFromFeedback, whose one await is of calculateSuccessMetrics,
   which does not wait. *)
FeedbackLogged(k) ==
  /\ EventLoopTurn
  /\ chores[k].pc = "loggingFeedback"
  /\ files' = appendToFeedbackLog(files, recentFeedback[chores[k].entry])
  /\ ret' = Returned(k)
  /\ chores' = RemoveAt(chores, k)
  /\ IF chores[k].kind = "monitorAddUserFeedback"
     THEN updateLearningFromFeedback(recentFeedback, now)
     ELSE UNCHANGED <<statistics, learningData>>
  /\ UNCHANGED <<config, monitorVars, lifecycleLog, inputVars, recentActions,
                 lastAnalysis, ledger, recentFeedback, feedbackDir, now, cycles, tasks>>

(* AutonomousMonitor.recordActionOutcome *)
recordActionOutcome(ts, oc) == recordOutcome(ts, oc)

---------------------------------------------------------------------------
(* feedback-recorder.ts: learning insights *)

(* analyzeFeedbackPatterns: actionPerformance[action] over the entries of the
   last week; the two rates are fractions <<numerator, denominator>>, 0 when
   the action has no rating or no outcome. *)
ActionPerformance(entries, action) ==
  LET own == SelectSeq(entries, LAMBDA e : e.actionTaken.action = action)
      ratings == SelectSeq(own, LAMBDA e : e.userFeedback # <<>>)
      effectiveness == SelectSeq(own, LAMBDA e : e.outcome # <<>>)
      SumRatings[i \in 0..Len(ratings)] ==
        IF i = 0 THEN 0 ELSE SumRatings[i - 1] + ratings[i].userFeedback[1].rating
      effective == Cardinality({i \in DOMAIN effectiveness :
                                 effectiveness[i].outcome[1].effective})
  IN [averageRating |-> IF Len(ratings) > 0 THEN <<SumRatings[Len(ratings)], Len(ratings)>>
                        ELSE <<0, 1>>,
      effectivenessRate |-> IF Len(effectiveness) > 0
                            THEN <<effective, Len(effectiveness)>> ELSE <<0, 1>>,
      sampleSize |-> IF Len(ratings) >= Len(effectiveness) THEN Len(ratings)
                     ELSE Len(effectiveness)]

(* entry.userFeedback?.rating >= 3 || entry.outcome?.effective *)
PatternSucceeded(e) ==
  \/ e.userFeedback # <<>> /\ e.userFeedback[1].rating >= 3
  \/ e.outcome # <<>> /\ e.outcome[1].effective

(* analyzeFeedbackPatterns: patternSuccessRates[key], one count per pattern
   of each entry. *)
PatternSuccessRate(entries, key) ==
  LET all == UNION {{<<i, j>> : j \in DOMAIN entries[i].actionTaken.patterns} :
                      i \in DOMAIN entries}
      Pairs(ok) == {p \in all :
                      /\ patternKey(entries[p[1]].actionTaken.patterns[p[2]]) = key
                      /\ ok => PatternSucceeded(entries[p[1]])}
  IN [total |-> Cardinality(Pairs(FALSE)), successful |-> Cardinality(Pairs(TRUE))]

analyzeFeedbackPatterns(store, t) ==
  LET recentEntries == getRecentFeedback(store, 168, t)
      actions == {recentEntries[i].actionTaken.action : i \in DOMAIN recentEntries}
      keys == UNION {{patternKey(recentEntries[i].actionTaken.patterns[j]) :
                        j \in DOMAIN recentEntries[i].actionTaken.patterns} :
                     i \in DOMAIN recentEntries}
  IN [patternSuccessRates |-> [k \in keys |-> PatternSuccessRate(recentEntries, k)],
      actionPerformance |-> [a \in actions |-> ActionPerformance(recentEntries, a)],
      totalSamples |-> Len(recentEntries)]

(* generateRecommendations without its sample-size gate on the actions. *)
generateRecommendationsUngated(insights) ==
  LET perf == insights.actionPerformance
      rates == insights.patternSuccessRates
      reduce == {a \in DOMAIN perf :
                   2 * perf[a].averageRating[1] < 5 * perf[a].averageRating[2]}
      review == {a \in DOMAIN perf :
                   10 * perf[a].effectivenessRate[1] < 3 * perf[a].effectivenessRate[2]}
      adjust == {k \in DOMAIN rates :
                   rates[k].total >= 3 /\ 10 * rates[k].successful < 4 * rates[k].total}
      needData == insights.totalSamples < 10
  IN [reduce |-> reduce, review |-> review, adjust |-> adjust, needData |-> needData,
      good |-> reduce = {} /\ review = {} /\ adjust = {} /\ ~needData]

(* generateRecommendations: the recommendations by kind - the actions to use
   less (averageRating < 2.5), the actions whose parameters to review
   (effectivenessRate < 0.3), the pattern keys whose thresholds to adjust
   (successRate < 0.4), the call for more data and the all-is-well line. *)
generateRecommendations(insights) ==
  LET perf == insights.actionPerformance
      rates == insights.patternSuccessRates
      sampled == {a \in DOMAIN perf : ~(perf[a].sampleSize < 5)}
      reduce == {a \in sampled :
                   2 * perf[a].averageRating[1] < 5 * perf[a].averageRating[2]}
      review == {a \in sampled :
                   10 * perf[a].effectivenessRate[1] < 3 * perf[a].effectivenessRate[2]}
      adjust == {k \in DOMAIN rates :
                   rates[k].total >= 3 /\ 10 * rates[k].successful < 4 * rates[k].total}
      needData == insights.totalSamples < 10
  IN [reduce |-> reduce, review |-> review, adjust |-> adjust, needData |-> needData,
      good |-> reduce = {} /\ review = {} /\ adjust = {} /\ ~needData]

(* fs.writeFile: the file holds the one block written, whatever it held. *)
writeFile(fs, name) ==
  IF name \in DOMAIN fs THEN [fs EXCEPT ![name] = 1] ELSE fs @@ (name :> 1)

(* learning-insights.md, a name without a date. *)
InsightsFile == [prefix |-> <<"learning", "insights">>, day |-> NoTime]

(* generateLearningInsights up to `await fs.writeFile`: the insights of the
   last week are computed from the store and formatted; arg holds the
   insights and the recommendations of the text the call is to return. *)
generateLearningInsights ==
  /\ RoomToCall
  /\ LET insights == analyzeFeedbackPatterns(recentFeedback, now)
     IN Suspend("generateLearningInsights", "writingInsights", 0,
                <<insights, generateRecommendations(insights)>>)
  /\ UNCHANGED <<config, monitorVars, lifecycleLog, inputVars, stateVars, ledger,
                 storeVars, ret, now, cycles, tasks>>

---------------------------------------------------------------------------
(* autonomous-monitor.ts and feedback-recorder.ts: the final report of stop()
   and the daily maintenance *)

(* reports/daily-${date}.md, in the directory reports of the feedback
   directory: readdir of the feedback directory does not list it. *)
ReportFile(day) == [prefix |-> <<"reports", "daily">>, day |-> day]

(* The caller of generateDailyReport goes on: stop() writes its last line and
   returns, performDailyMaintenance calls generateLearningInsights, which
   analyses the store and starts to write learning-insights.md. *)
AfterReport(k) ==
  IF chores[k].kind = "stop"
  THEN /\ lifecycleLog' = "Autonomous monitoring stopped"
       /\ chores' = RemoveAt(chores, k)
  ELSE /\ chores' = [chores EXCEPT ![k] = [@ EXCEPT !.pc = "writingInsights"]]
       /\ UNCHANGED lifecycleLog

(* generateDailyReport after `await this.loadFeedbackForDate(date)`, which
   resolves at once with recentFeedback: an empty day needs no file, for any
   other report ensureDirectoryExists is called on the directory reports and
   waits for fs.access.  The oldest waiting continuation runs first. *)
ReportLoaded(k) ==
  /\ chores[k].pc = "loading"
  /\ \A j \in 1..(k - 1) : chores[j].pc # "loading"
  /\ IF recentFeedback = <<>>
     THEN AfterReport(k)
     ELSE /\ chores' = [chores EXCEPT ![k] = [@ EXCEPT !.pc = "accessingReports"]]
          /\ UNCHANGED lifecycleLog
  /\ UNCHANGED <<config, monitorVars, inputVars, stateVars, ledger, storeVars, ret,
                 now, cycles, tasks>>

(* ensureDirectoryExists of generateDailyReport: fs.access of the directory
   reports is over.  The directory is there when a report was written or a
   report waits for its fs.writeFile, and fs.writeFile is called; otherwise
   fs.access has rejected and fs.mkdir is called. *)
ReportsAccessed(k) ==
  /\ EventLoopTurn
  /\ chores[k].pc = "accessingReports"
  /\ LET reports == \/ \E name \in DOMAIN files : name.prefix = <<"reports", "daily">>
                    \/ \E j \in DOMAIN chores : chores[j].pc = "writingReport"
     IN chores' = [chores EXCEPT ![k] =
                     [@ EXCEPT !.pc = IF reports THEN "writingReport"
                                      ELSE "makingReports"]]
  /\ UNCHANGED <<config, monitorVars, lifecycleLog, inputVars, stateVars, ledger,
                 storeVars, ret, now, cycles, tasks>>

(* ensureDirectoryExists of generateDailyReport: fs.mkdir of the directory
   reports with recursive: true, which makes the feedback directory as well,
   is over, and fs.writeFile of the report is called. *)
ReportsMade(k) ==
  /\ EventLoopTurn
  /\ chores[k].pc = "makingReports"
  /\ feedbackDir' = TRUE
  /\ chores' = [chores EXCEPT ![k] = [@ EXCEPT !.pc = "writingReport"]]
  /\ UNCHANGED <<config, monitorVars, lifecycleLog, inputVars, stateVars, ledger,
                 recentFeedback, files, ret, now, cycles, tasks>>

(* generateDailyReport: fs.writeFile of the report is over and the call
   returns. *)
ReportWritten(k) ==
  /\ EventLoopTurn
  /\ chores[k].pc = "writingReport"
  /\ files' = writeFile(files, ReportFile(chores[k].day))
  /\ AfterReport(k)
  /\ UNCHANGED <<config, monitorVars, inputVars, stateVars, ledger, recentFeedback,
                 feedbackDir, ret, now, cycles, tasks>>

(* The constructor's ensureDirectoryExists, which nothing awaits: fs.mkdir of
   the feedback directory is over. *)
DirectoryMade ==
  /\ ~feedbackDir
  /\ feedbackDir' = TRUE
  /\ UNCHANGED <<config, monitorVars, lifecycleVars, inputVars, stateVars, ledger,
                 recentFeedback, files, ret, now, cycles, tasks>>

(* The timer of schedule k fires: performDailyMaintenance runs up to its
   first await, and the schedule fires again 24 hours later (setInterval). *)
MaintenanceFires(k) ==
  /\ EventLoopTurn
  /\ k \in DOMAIN maintenanceDue
  /\ maintenanceDue[k] <= now
  /\ maintenanceDue' = [maintenanceDue EXCEPT ![k] = now + DayMs]
  /\ chores' = Append(chores, Chore("maintenance", now))
  /\ UNCHANGED <<config, isRunning, isActive, monitoringTimer, intervals, maintenance,
                 lifecycleLog, inputVars, stateVars, ledger, storeVars, ret, now,
                 cycles, tasks>>

(* generateLearningInsights: fs.writeFile of learning-insights.md is over.
   A call made to the recorder returns the text; performDailyMaintenance goes
   on to cleanup(), which takes its cutoff from the clock and calls
   fs.readdir.  In a directory that does not exist fs.writeFile rejects:
   generateLearningInsights rejects, and the catch of performDailyMaintenance
   ends the maintenance there. *)
InsightsWritten(k) ==
  /\ EventLoopTurn
  /\ chores[k].pc = "writingInsights"
  /\ files' = IF feedbackDir THEN writeFile(files, InsightsFile) ELSE files
  /\ IF chores[k].kind = "maintenance"
     THEN /\ chores' = IF feedbackDir
                       THEN [chores EXCEPT ![k] = [@ EXCEPT !.pc = "readingDir",
                                                            !.at = now]]
                       ELSE RemoveAt(chores, k)
          /\ UNCHANGED ret
     ELSE /\ chores' = RemoveAt(chores, k)
          /\ ret' = [op |-> "generateLearningInsights", ts |-> chores[k].at,
                     arg |-> chores[k].arg, ok |-> feedbackDir]
  /\ UNCHANGED <<config, monitorVars, lifecycleLog, inputVars, stateVars, ledger,
                 recentFeedback, feedbackDir, now, cycles, tasks>>

(* performDailyMaintenance after cleanup() returned: the daily count is reset
   and the call is over. *)
MaintenanceEnds(k) ==
  /\ statistics' = [statistics EXCEPT !.actionsToday = 0]
  /\ chores' = RemoveAt(chores, k)

(* cleanup() returns, to performDailyMaintenance or to the caller of the
   recorder. *)
CleanupReturns(k) ==
  IF chores[k].kind = "maintenance"
  THEN /\ MaintenanceEnds(k)
       /\ UNCHANGED ret
  ELSE /\ chores' = RemoveAt(chores, k)
       /\ ret' = [op |-> "cleanup", ts |-> chores[k].at, arg |-> <<>>, ok |-> TRUE]
       /\ UNCHANGED statistics

(* cleanup(): fs.readdir is over; the loop goes through the names and calls
   fs.unlink for the first log file dated before the cutoff, if any.  (Of a
   directory that does not exist fs.readdir rejects and the catch of
   cleanup() returns: there is no file then.) *)
DirRead(k) ==
  /\ EventLoopTurn
  /\ chores[k].pc = "readingDir"
  /\ LET victims == {n \in DOMAIN files :
                       MatchesLogName(n) /\ BeforeCutoff(n, chores[k].at)}
     IN IF victims = {}
        THEN CleanupReturns(k)
        ELSE /\ chores' = [chores EXCEPT ![k] =
                             [@ EXCEPT !.pc = "unlinking", !.victims = victims]]
             /\ UNCHANGED <<statistics, ret>>
  /\ UNCHANGED <<config, monitorVars, lifecycleLog, inputVars, recentActions,
                 lastAnalysis, learningData, ledger, storeVars, now, cycles, tasks>>

(* cleanup(): fs.unlink of n is over (the names come in the order readdir
   gave them, which the file system chooses).  An unlink of a file that is
   gone rejects, and the catch of cleanup() ends the sweep. *)
Unlinked(k, n) ==
  /\ EventLoopTurn
  /\ chores[k].pc = "unlinking"
  /\ n \in chores[k].victims
  /\ IF n \in DOMAIN files
     THEN /\ files' = [m \in DOMAIN files \ {n} |-> files[m]]
          /\ IF chores[k].victims = {n}
             THEN CleanupReturns(k)
             ELSE /\ chores' = [chores EXCEPT ![k] = [@ EXCEPT !.victims = @ \ {n}]]
                  /\ UNCHANGED <<statistics, ret>>
     ELSE /\ CleanupReturns(k)
          /\ UNCHANGED files
  /\ UNCHANGED <<config, monitorVars, lifecycleLog, inputVars, recentActions,
                 lastAnalysis, learningData, ledger, recentFeedback, feedbackDir, now,
                 cycles, tasks>>

(* The clock reaches one of the instants; no timer that is due is passed
   over. *)
ClockReaches(instants) ==
  /\ EventLoopTurn
  /\ \E t \in instants :
       /\ t > now
       /\ \A k \in DOMAIN maintenanceDue : maintenanceDue[k] >= t
       /\ now' = t
  /\ UNCHANGED <<config, monitorVars, lifecycleVars, inputVars, stateVars, ledger,
                 storeVars, ret, cycles, tasks>>

---------------------------------------------------------------------------
(* The specifications *)

Init ==
  /\ config \in Configs
  /\ isRunning = FALSE
  /\ isActive = config.enabled
  /\ monitoringTimer = FALSE
  /\ intervals = 0
  /\ maintenance = 0
  /\ maintenanceDue = <<>>
  /\ lifecycleLog = "none"
  /\ chores = <<>>
  /\ recentMessages = <<>>
  /\ recentActions = <<>>
  /\ statistics = [actionsToday |-> 0, successRate |-> <<0, 1>>,
                   averageConfidence |-> <<0, 1>>, mostCommonAction |-> ""]
  /\ lastAnalysis = 0
  /\ ledger = [a \in ActionNames |-> NoTime]
  /\ recentFeedback = <<>>
  /\ files = <<>>
  /\ feedbackDir \in BOOLEAN
  /\ learningData = [successfulPatterns |-> <<>>, failedPatterns |-> <<>>]
  /\ arrived = 0
  /\ userMessageCounts = <<>>
  /\ ret = NoCall
  /\ now = 0
  /\ cycles = 0
  /\ tasks = [t \in Tasks |-> IdleTask]

(* The answers of the decision oracle the monitor's pipelines run over. *)
MonitorAnswers == {Throws, Array(<<PTimeout, PMsg>>)}

(* The monitor's pipelines: it is started once and stopped, and periodic
   cycles and forceAnalysis calls interleave at their awaits, under the
   configuration it was constructed with. *)
MaxMonitorStarts == 1   \* successful start() calls in one behaviour

Next ==
  \/ StartAllowed(MaxMonitorStarts) /\ start
  \/ stop
  \/ \E u \in Users :
       addChatMessages(<<[username |-> u, content |-> arrived + 1, timestamp |-> now]>>)
  \/ Tick
  \/ forceAnalysis
  \/ \E t \in Tasks : AnalysisSkipped(t)
  \/ \E t \in Tasks, ps \in PatternLists : AnalysisReturns(t, ps)
  \/ \E t \in Tasks, a \in MonitorAnswers : DecisionOracleReturns(t, a)
  \/ \E t \in Tasks, a \in ParamAnswers : ParamOracleReturns(t, a)
  \/ \E t \in Tasks, o \in {"ok", "fail", "throw"} :
       \E i \in DOMAIN tasks[t].decisions : ExecutorReturns(t, i, o)
  \/ \E t \in Tasks : EntrySaved(t)
  \/ \E t \in Tasks : ActionLogged(t)
  \/ \E t \in Tasks : PauseDone(t)
  \/ \E k \in DOMAIN chores : ReportLoaded(k)
  \/ \E k \in DOMAIN chores : ReportsAccessed(k)
  \/ \E k \in DOMAIN chores : ReportsMade(k)
  \/ \E k \in DOMAIN chores : ReportWritten(k)
  \/ DirectoryMade

Spec == Init /\ [][Next]_vars

(* The monitor's lifecycle: start, stop and updateConfig in any order, also
   while a stop() waits for its report, with pipelines that time out the
   author of a toxic message by the fallback rules. *)
InitLifecycle == Init /\ feedbackDir

NextLifecycle ==
  \/ start
  \/ stop
  \/ \E u \in Users :
       addChatMessages(<<[username |-> u, content |-> arrived + 1, timestamp |-> now]>>)
  \/ \E c \in Configs : updateConfig(c)
  \/ Tick
  \/ forceAnalysis
  \/ \E t \in Tasks : AnalysisSkipped(t)
  \/ \E t \in Tasks : AnalysisReturns(t, <<Tox8>>)
  \/ \E t \in Tasks : DecisionOracleReturns(t, Throws)
  \/ \E t \in Tasks, o \in {"ok", "fail"} :
       \E i \in DOMAIN tasks[t].decisions : ExecutorReturns(t, i, o)
  \/ \E t \in Tasks : EntrySaved(t)
  \/ \E t \in Tasks : ActionLogged(t)
  \/ \E t \in Tasks : PauseDone(t)
  \/ \E k \in DOMAIN chores : ReportLoaded(k)
  \/ \E k \in DOMAIN chores : ReportsAccessed(k)
  \/ \E k \in DOMAIN chores : ReportsMade(k)
  \/ \E k \in DOMAIN chores : ReportWritten(k)

SpecLifecycle == InitLifecycle /\ [][NextLifecycle]_vars

(* The decision engine alone: makeDecisions calls one after the other, the
   clock moving between them. *)
PollOff == MkConfig(TRUE, TRUE, TRUE, "ban", TRUE, FALSE)
WarnOn == MkConfig(TRUE, TRUE, TRUE, "warn", TRUE, TRUE)
EngineConfigs == {AllOn, Disabled, PollOff, WarnOn}
EnginePatternLists ==
  PatternLists \cup {<<Tox8>>,
                     <<Pattern("spam", 5, 80), Pattern("spam", 6, 80)>>,
                     <<Pattern("toxicity", 6, 90), Pattern("toxicity", 7, 70)>>,
                     <<Pattern("spam", 9, 69), Pattern("question", 9, 90)>>}
EngineInstants == {59999, 60000, 240000, 300000, 360000, 899999, 900000}
EngineAnswers == {Throws, Garbage, Array(<<PPoll>>), Array(<<PBan, PPoll>>),
                  Array(<<PNoReason, PMsg>>), Array(<<PNoAction, PBan>>),
                  Array(<<PPred>>)}

makeDecisions(ps) ==
  /\ cycles < MaxCycles
  /\ Free # {}
  /\ tasks' = [tasks EXCEPT ![Slot] = StartMake("engine", cycles + 1, ps)]
  /\ cycles' = cycles + 1
  /\ UNCHANGED <<config, monitorVars, lifecycleVars, inputVars, stateVars,
                 ledger, storeVars, ret, now>>

InitEngine == Init /\ config = AllOn /\ feedbackDir

NextEngine ==
  \/ \E ps \in EnginePatternLists : makeDecisions(ps)
  \/ \E t \in Tasks, a \in EngineAnswers : DecisionOracleReturns(t, a)
  \/ \E t \in Tasks, a \in ParamAnswers : ParamOracleReturns(t, a)
  \/ \E c \in EngineConfigs : updateConfig(c)
  \/ Advance(EngineInstants)

SpecEngine == InitEngine /\ [][NextEngine]_vars

(* The analyzer under the monitor: messages of two users arrive one at a
   time and in batches of 10 and of 100, before forceAnalysis calls analyzeChat
   and while the call waits for its five answers. *)
MaxSingles == 2
Message(u, i) == [username |-> u, content |-> arrived + i, timestamp |-> now]
Batch(n) == [i \in 1..n |-> Message("u1", i)]

(* The answers the forced pipelines of the tracking specification run over. *)
PipelineAnswers ==
  {AllThrow,
   MkAnswers(AList(<<Result(1, 8)>>), AGarbage, AList(<<Result(1, 6)>>), AObject(-50),
             AActivity(8, <<"Run a poll">>))}

InitAnalyzer == Init /\ config = AllOn /\ feedbackDir

NextAnalyzer ==
  \/ \E u \in {"u1", "u2"} :
       arrived < MaxSingles /\ PushMessages(<<Message(u, 1)>>)
  \/ \E n \in {10, 100} : arrived + n <= MaxAnalyzed /\ PushMessages(Batch(n))
  \/ forceAnalysis
  \/ \E t \in Tasks : AnalysisSkipped(t)
  \/ \E t \in Tasks, a \in AnalyzerAnswers : AnalyzerResolves(t, a)

SpecAnalyzer == InitAnalyzer /\ [][NextAnalyzer]_vars

(* The analyzer's user tracking: messages of two users arrive while the clock
   passes the one-minute and the ten-minute horizon, and forceAnalysis calls
   analyzeChat on the window. *)
MaxTracked == 2
TrackedUsers == {"u1", "u2"}
TrackingInstants == {30000, 60001, 600001}

InitTracking == Init /\ config = AllOn /\ feedbackDir

NextTracking ==
  \/ \E u \in TrackedUsers :
       /\ arrived < MaxTracked
       /\ PushMessages(<<Message(u, 1)>>)
  \/ forceAnalysis
  \/ \E t \in Tasks : AnalysisSkipped(t)
  \/ \E t \in Tasks, a \in PipelineAnswers : AnalyzerResolves(t, a)
  \/ Advance(TrackingInstants)

SpecTracking == InitTracking /\ [][NextTracking]_vars

(* convertToPatterns and determineAttentionNeeded on their own: the window
   holds up to MaxConverted messages of two users, and the parsed result
   lists name messages inside and outside it, with and without a username of
   their own, with scores on both sides of the floors. *)
MaxConverted == 2
MaxConversions == 1
ListsUpTo(results, n) == UNION {[1..k -> results] : k \in 0..n}
ToxicityResults ==
  ListsUpTo({Result(i, sc) : i \in {0, 1, 2}, sc \in {3, 4, 5, 6}}
              \cup {ResultOf(1, 6, "u3")}, 1)
SpamResults == ListsUpTo({Result(i, sc) : i \in {1, 3}, sc \in {3, 4, 7}}, 2)
EngagementResults == ListsUpTo({Result(1, sc) : sc \in {5, 6}}, 1)

(* analyzeChat from the parsed lists on: convertToPatterns, then
   determineAttentionNeeded; ret holds the lists, the patterns and the flag. *)
convertCall(toxicityResults, spamResults, engagementResults) ==
  /\ recentMessages # <<>>
  /\ cycles < MaxConversions
  /\ cycles' = cycles + 1
  /\ LET patterns == convertToPatterns(recentMessages, toxicityResults, spamResults,
                                        engagementResults)
     IN ret' = [op |-> "convertToPatterns", ts |-> Len(recentMessages),
                arg |-> <<toxicityResults, spamResults, engagementResults, patterns,
                          determineAttentionNeeded(patterns)>>,
                ok |-> TRUE]
  /\ UNCHANGED <<config, monitorVars, lifecycleVars, inputVars, stateVars, ledger,
                 storeVars, now, tasks>>

InitConvert == Init /\ config = AllOn /\ feedbackDir

NextConvert ==
  \/ \E u \in TrackedUsers : arrived < MaxConverted /\ PushMessages(<<Message(u, 1)>>)
  \/ \E tox \in ToxicityResults, spam \in SpamResults, eng \in EngagementResults :
       convertCall(tox, spam, eng)

SpecConvert == InitConvert /\ [][NextConvert]_vars

(* The learning insights: one decision is recorded an instant, on the days of
   a week and after it, each is rated once and then observed once by an
   addUserFeedback and a recordOutcome call made at its instant, and once
   MaxInsightRecords decisions are recorded generateLearningInsights is
   called; every call waits at its awaits while the others go on, and the
   file operations of a day are over before the next instant. *)
MaxInsightRecords == 5
LowRating == [rating |-> 1, comment |-> "bad", source |-> "manual"]
HighRating == [rating |-> 5, comment |-> "none", source |-> "chat"]
Ineffective == [effective |-> FALSE, chatResponse |-> "none", sideEffects |-> <<>>]
InsightInstants == {DayMs, 2 * DayMs, 3 * DayMs, 4 * DayMs, 8 * DayMs}
NextInstant == {t \in InsightInstants : \A u \in InsightInstants : u > now => t <= u}

InitInsights == Init /\ config = AllOn /\ feedbackDir

NextInsights ==
  \/ /\ FindEntry(recentFeedback, now) = 0
     /\ RecordActionWithin(MaxInsightRecords, "timeoutUser", <<Tox8>>)
  \/ \E k \in DOMAIN chores : RecordSaved(k)
  \/ \E k \in DOMAIN chores : RecordLogged(k)
  \/ \E fb \in {LowRating, HighRating} :
       /\ \E i \in DOMAIN recentFeedback :
            i = FindEntry(recentFeedback, now) /\ recentFeedback[i].userFeedback = <<>>
       /\ addUserFeedback(now, fb)
  \/ /\ \E i \in DOMAIN recentFeedback :
          /\ i = FindEntry(recentFeedback, now)
          /\ recentFeedback[i].userFeedback # <<>>
          /\ recentFeedback[i].outcome = <<>>
     /\ recordOutcome(now, Ineffective)
  \/ \E k \in DOMAIN chores : EntryUpdated(k)
  \/ \E k \in DOMAIN chores : FeedbackLogged(k)
  \/ /\ Len(recentFeedback) = MaxInsightRecords
     /\ \A k \in DOMAIN chores : chores[k].kind # "generateLearningInsights"
     /\ generateLearningInsights
  \/ \E k \in DOMAIN chores : InsightsWritten(k)
  \/ chores = <<>> /\ Advance(NextInstant)

SpecInsights == InitInsights /\ [][NextInsights]_vars

(* The monitor with the oracle down: every analysis prompt and every decision
   prompt is answered by an exception. *)
InitOracleDown == Init

NextOracleDown ==
  \/ start
  \/ stop
  \/ \E u \in Users :
       addChatMessages(<<[username |-> u, content |-> arrived + 1, timestamp |-> now]>>)
  \/ \E c \in Configs : updateConfig(c)
  \/ Tick
  \/ forceAnalysis
  \/ \E t \in Tasks : AnalysisSkipped(t)
  \/ \E t \in Tasks : AnalyzerResolves(t, AllThrow)
  \/ \E t \in Tasks : DecisionOracleReturns(t, Throws)
  \/ \E k \in DOMAIN chores : ReportLoaded(k)
  \/ DirectoryMade

SpecOracleDown == InitOracleDown /\ [][NextOracleDown]_vars

(* The monitor over three days: it is started and stopped, a periodic cycle
   times out the author of a toxic message, and the maintenance timers fire
   at each midnight. *)
MaintenanceInstants == {DayMs, 2 * DayMs}
MaxMaintenanceCycles == 1   \* periodic cycles of one behaviour
MaxMaintenanceStarts == 1   \* start() calls of one behaviour

InitMaintenance == Init /\ config = AllOn

NextMaintenance ==
  \/ maintenance < MaxMaintenanceStarts /\ start
  \/ stop
  \/ \E u \in Users :
       addChatMessages(<<[username |-> u, content |-> arrived + 1, timestamp |-> now]>>)
  \/ cycles < MaxMaintenanceCycles /\ Tick
  \/ \E t \in Tasks : AnalysisReturns(t, <<Tox8>>)
  \/ \E t \in Tasks : DecisionOracleReturns(t, Throws)
  \/ \E t \in Tasks :
       \E i \in DOMAIN tasks[t].decisions : ExecutorReturns(t, i, "ok")
  \/ \E t \in Tasks : EntrySaved(t)
  \/ \E t \in Tasks : ActionLogged(t)
  \/ \E t \in Tasks : PauseDone(t)
  \/ \E k \in DOMAIN chores : ReportLoaded(k)
  \/ \E k \in DOMAIN chores : ReportsAccessed(k)
  \/ \E k \in DOMAIN chores : ReportsMade(k)
  \/ \E k \in DOMAIN chores : ReportWritten(k)
  \/ \E k \in DOMAIN maintenanceDue : MaintenanceFires(k)
  \/ \E k \in DOMAIN chores : InsightsWritten(k)
  \/ \E k \in DOMAIN chores : DirRead(k)
  \/ \E k \in DOMAIN chores : \E n \in chores[k].victims : Unlinked(k, n)
  \/ ClockReaches(MaintenanceInstants)
  \/ DirectoryMade

SpecMaintenance == InitMaintenance /\ [][NextMaintenance]_vars

(* The cooldown ledger under the monitor: forced pipelines whose decisions the
   executor runs or fails, the clock moving up to the end of banUser's
   cooldown. *)
LedgerInstants == {1000, 299999, 300000}
LedgerAnswers == {Throws, Array(<<PBan, PPoll>>), Array(<<PNoReason, PMsg>>),
                  Array(<<PBan, PMsg>>)}
LedgerAnalyses == {<<Tox8, Quest6>>, <<Tox8>>}

InitLedger == Init /\ config = AllOn /\ feedbackDir

NextLedger ==
  \/ addChatMessages(Batch(1))
  \/ forceAnalysis
  \/ \E t \in Tasks : AnalysisSkipped(t)
  \/ \E t \in Tasks, ps \in LedgerAnalyses : AnalysisReturns(t, ps)
  \/ \E t \in Tasks, a \in LedgerAnswers : DecisionOracleReturns(t, a)
  \/ \E t \in Tasks, a \in ParamAnswers : ParamOracleReturns(t, a)
  \/ \E t \in Tasks, o \in {"ok", "fail", "throw"} :
       \E i \in DOMAIN tasks[t].decisions : ExecutorReturns(t, i, o)
  \/ \E t \in Tasks : EntrySaved(t)
  \/ \E t \in Tasks : ActionLogged(t)
  \/ \E t \in Tasks : PauseDone(t)
  \/ Advance(LedgerInstants)

SpecLedger == InitLedger /\ [][NextLedger]_vars

(* The feedback recorder alone, its directory in place: the calls made to it
   and to the monitor wait for the file system one beside the other. *)
Recorded == {<<"timeoutUser", <<Tox8>> >>, <<"sendMessageToChat", <<>> >>}

InitFeedback == Init /\ config = AllOn /\ feedbackDir

NextFeedback ==
  \/ \E r \in Recorded : RecordActionCall(r[1], r[2])
  \/ \E ts \in FeedbackInstants, fb \in Feedbacks : addUserFeedback(ts, fb)
  \/ \E ts \in FeedbackInstants, fb \in Feedbacks : monitorAddUserFeedback(ts, fb)
  \/ \E ts \in FeedbackInstants, oc \in Outcomes : recordOutcome(ts, oc)
  \/ \E ts \in FeedbackInstants, oc \in Outcomes : recordActionOutcome(ts, oc)
  \/ calculateSuccessMetrics
  \/ \E k \in DOMAIN chores : RecordSaved(k)
  \/ \E k \in DOMAIN chores : RecordLogged(k)
  \/ \E k \in DOMAIN chores : EntryUpdated(k)
  \/ \E k \in DOMAIN chores : FeedbackLogged(k)
  \/ Advance(FeedbackInstants)

SpecFeedback == InitFeedback /\ [][NextFeedback]_vars

(* The recorder from its construction on: calls made to it before and after
   the directory is there. *)
InitConstruction == Init /\ config = AllOn

NextConstruction ==
  \/ RecordActionCall("timeoutUser", <<Tox8>>)
  \/ \E fb \in Feedbacks : addUserFeedback(0, fb)
  \/ \E oc \in Outcomes : recordOutcome(0, oc)
  \/ \E k \in DOMAIN chores : RecordSaved(k)
  \/ \E k \in DOMAIN chores : RecordLogged(k)
  \/ \E k \in DOMAIN chores : EntryUpdated(k)
  \/ \E k \in DOMAIN chores : FeedbackLogged(k)
  \/ DirectoryMade

SpecConstruction == InitConstruction /\ [][NextConstruction]_vars

(* The recorder over several days: actions and feedback are logged on the day
   they happen and the daily maintenance sweeps the directory. *)
CleanupInstants == {0, DayMs, 2 * DayMs, 3 * DayMs}

InitCleanup == Init /\ config = AllOn /\ feedbackDir

NextCleanup ==
  \/ RecordActionCall("timeoutUser", <<>>)
  \/ \E fb \in Feedbacks : addUserFeedback(now, fb)
  \/ cleanup
  \/ \E k \in DOMAIN chores : RecordSaved(k)
  \/ \E k \in DOMAIN chores : RecordLogged(k)
  \/ \E k \in DOMAIN chores : EntryUpdated(k)
  \/ \E k \in DOMAIN chores : FeedbackLogged(k)
  \/ \E k \in DOMAIN chores : DirRead(k)
  \/ \E k \in DOMAIN chores : \E n \in chores[k].victims : Unlinked(k, n)
  \/ Advance(CleanupInstants)

SpecCleanup == InitCleanup /\ [][NextCleanup]_vars

---------------------------------------------------------------------------
(* The claims *)

(* C1: no pipeline is in flight at the same time as a periodic cycle: a tick or
   a forceAnalysis during a cycle that still awaits the oracle or the executor
   starts no second pipeline. *)
C1_OnePipelineAtATime ==
  \A t, u \in Tasks :
    (t # u /\ InFlight(t) /\ InFlight(u))
    => tasks[t].kind # "periodic" /\ tasks[u].kind # "periodic"

(* C2: a makeDecisions call returns a createTwitchPoll decision only if no
   createTwitchPoll decision was returned in the 15 minutes before, so two
   calls less than 15 minutes apart return at most one between them. *)
C2_OnePollPerCooldown ==
  [][\A t \in Tasks :
       (/\ InFlight(t)
        /\ tasks'[t].pc = "done"
        /\ \E i \in DOMAIN tasks'[t].decisions :
             tasks'[t].decisions[i].action = "createTwitchPoll")
       => \/ ledger["createTwitchPoll"] = NoTime
          \/ now - ledger["createTwitchPoll"] >= 15 * 60000]_vars

(* C3: at every makeDecisions call, a tool with a cooldown of c minutes whose
   ledger entry is t0 is no candidate while now < t0 + c minutes, and is one
   from t0 + c minutes on when its configuration gate is open. *)
C3_CooldownWindow ==
  [][\A t \in Tasks :
       (tasks'[t].cycle # tasks[t].cycle /\ tasks'[t].pc = "deciding")
       => \A i \in DOMAIN AVAILABLE_MCP_TOOLS :
            LET tool == AVAILABLE_MCP_TOOLS[i]
                t0 == ledger[tool.name]
            IN (tool.cooldown > 0 /\ t0 # NoTime)
               => /\ now < t0 + tool.cooldown * 60000
                     => tool.name \notin tasks'[t].avail
                  /\ (now >= t0 + tool.cooldown * 60000 /\ GateOpen(tool, config))
                     => tool.name \in tasks'[t].avail]_vars

(* C3 witness: a call six minutes after banUser (5 minutes) and createTwitchPoll
   (15 minutes) were stamped has banUser among its candidates and not
   createTwitchPoll. *)
C3_Witness ==
  \E t \in Tasks :
    /\ tasks[t].pc = "deciding"
    /\ config = AllOn
    /\ now = 360000
    /\ ledger["banUser"] = 0
    /\ ledger["createTwitchPoll"] = 0
    /\ "banUser" \in tasks[t].avail
    /\ "createTwitchPoll" \notin tasks[t].avail

(* C4: stopping does not abort a periodic cycle: once the cycle is over every
   one of its decisions was passed to the executor, every call that succeeded
   is in the Feedback Store and, with the cycle over, in recentActions; and
   while the monitor is not running no timer is left to start a cycle. *)
C4_StopLetsCycleFinish ==
  /\ ~isRunning => intervals = 0
  /\ \A t \in Tasks :
       tasks[t].kind = "periodic"
       => /\ tasks[t].pc = "done" => Len(tasks[t].results) = Len(tasks[t].decisions)
          /\ \A k \in DOMAIN tasks[t].results :
               LET d == tasks[t].decisions[tasks[t].results[k][1]]
               IN tasks[t].results[k][2]
                  => /\ \E j \in DOMAIN recentFeedback : recentFeedback[j].actionTaken = d
                     /\ tasks[t].pc = "done"
                        => \E j \in DOMAIN recentActions : recentActions[j] = d

(* C4 witness: the monitor was stopped while a periodic cycle was in flight,
   and the cycle has since had its second decision executed and recorded. *)
C4_Witness ==
  \E t \in Tasks :
    /\ tasks[t].kind = "periodic"
    /\ tasks[t].pc = "pausing"
    /\ ~isRunning
    /\ lifecycleLog = "Autonomous monitoring stopped"
    /\ Len(tasks[t].executed) = 2
    /\ \E j \in DOMAIN recentFeedback : recentFeedback[j].actionTaken = tasks[t].decisions[2]

(* C5: a decision whose executor call failed is in none of the Feedback Store,
   recentActions and the executed list, and a pipeline that is over has called
   the executor for every one of its decisions. *)
C5_FailuresNotRecorded ==
  \A t \in Tasks :
    /\ \A k \in DOMAIN tasks[t].results :
         LET d == tasks[t].decisions[tasks[t].results[k][1]]
         IN ~tasks[t].results[k][2]
            => /\ \A j \in DOMAIN recentFeedback : recentFeedback[j].actionTaken.id # d.id
               /\ \A j \in DOMAIN recentActions : recentActions[j].id # d.id
               /\ \A j \in DOMAIN tasks[t].executed : tasks[t].executed[j].id # d.id
    /\ (tasks[t].pc = "done" /\ tasks[t].kind \in {"periodic", "force"})
       => Len(tasks[t].results) = Len(tasks[t].decisions)

(* C5 witness: a periodic cycle is over whose first call failed and whose
   second call succeeded and was recorded. *)
C5_Witness ==
  \E t \in Tasks :
    /\ tasks[t].kind = "periodic"
    /\ tasks[t].pc = "done"
    /\ tasks[t].results = << <<1, FALSE>>, <<2, TRUE>> >>
    /\ tasks[t].executed = <<tasks[t].decisions[2]>>
    /\ \E j \in DOMAIN recentActions : recentActions[j] = tasks[t].decisions[2]

(* C6: a pipeline has at most one executor call outstanding, the calls are
   answered in the order of the decisions, and the call for decision i is
   made only when all earlier ones were answered and, if successful, recorded. *)
C6_OneCallAtATime ==
  \A t \in Tasks :
    /\ Cardinality(tasks[t].pending) <= 1
    /\ \A k \in DOMAIN tasks[t].results : tasks[t].results[k][1] = k
    /\ \A i \in tasks[t].pending :
         /\ Len(tasks[t].results) = i - 1
         /\ \A k \in 1..(i - 1) :
              tasks[t].results[k][2]
              => \E j \in DOMAIN recentFeedback :
                   recentFeedback[j].actionTaken = tasks[t].decisions[k]

(* C6 witness: the call for the second decision is outstanding after the first
   one succeeded. *)
C6_Witness ==
  \E t \in Tasks :
    /\ tasks[t].pc = "executing"
    /\ tasks[t].pending = {2}
    /\ tasks[t].results = << <<1, TRUE>> >>

(* C7: start() while running and stop() while stopped change nothing but the
   console line: the running flag, isActive, the timer and the maintenance
   schedule stay as they are, and so does everything else. *)
C7_Idempotent ==
  [][((isRunning /\ start) \/ (~isRunning /\ stop))
     => UNCHANGED <<monitorVars, config, windowVars, stateVars, ledger,
                    storeVars, cycles, tasks>>]_vars

(* C7 witness: start() was called on a running monitor, which still has its
   one timer and its one maintenance schedule. *)
C7_Witness ==
  /\ isRunning
  /\ lifecycleLog = "Autonomous monitor is already running"
  /\ intervals = 1
  /\ maintenance = 1

(* C8: while the configuration has enabled = false, start() and forceAnalysis()
   start no pipeline (no oracle call, no executor call) and leave the monitor
   state, the cooldown ledger and the Feedback Store as they are. *)
C8_DisabledIsNoOp ==
  [][(~config.enabled /\ (start \/ forceAnalysis))
     => UNCHANGED <<monitorVars, stateVars, ledger, storeVars, tasks>>]_vars

(* C9: once a forceAnalysis call is over, every decision it executed is in the
   Feedback Store and in recentActions and is counted in actionsToday. *)
C9_ForceRecordsLikeCycle ==
  \A t \in Tasks :
    (tasks[t].kind = "force" /\ tasks[t].pc = "done")
    => /\ statistics.actionsToday >= Len(tasks[t].executed)
       /\ \A k \in DOMAIN tasks[t].executed :
            /\ \E j \in DOMAIN recentFeedback :
                 recentFeedback[j].actionTaken = tasks[t].executed[k]
            /\ \E j \in DOMAIN recentActions : recentActions[j] = tasks[t].executed[k]

(* C10: addUserFeedback(ts, fb) and recordOutcome(ts, oc) that find an entry
   attach to an entry nearest to ts among those within 60 seconds of ts: when
   the call has come to its await (it is to return true), such an entry
   carries fb (respectively oc). *)
C10_NearestEntry ==
  [][\A ts \in FeedbackInstants :
       LET Nearest(i) ==
             /\ Abs(recentFeedback[i].timestamp - ts) < 60000
             /\ \A j \in DOMAIN recentFeedback :
                  Abs(recentFeedback[i].timestamp - ts)
                    <= Abs(recentFeedback[j].timestamp - ts)
       IN /\ \A fb \in Feedbacks :
               (addUserFeedback(ts, fb) /\ chores' # chores)
               => \E i \in DOMAIN recentFeedback :
                    Nearest(i) /\ recentFeedback'[i].userFeedback = <<fb>>
          /\ \A oc \in Outcomes :
               (recordOutcome(ts, oc) /\ chores' # chores)
               => \E i \in DOMAIN recentFeedback :
                    Nearest(i) /\ recentFeedback'[i].outcome = <<oc>>]_vars

(* C11: a feedback or outcome call whose ts has no entry within 60 seconds
   returns false and changes neither the store nor the log files nor the
   monitor's statistics and learning data, and leaves nothing waiting for the
   file system. *)
C11_LookupFailureIsNoOp ==
  [][\A ts \in FeedbackInstants :
       (/\ \A i \in DOMAIN recentFeedback :
              Abs(recentFeedback[i].timestamp - ts) >= 60000
        /\ \/ \E fb \in Feedbacks : addUserFeedback(ts, fb) \/ monitorAddUserFeedback(ts, fb)
           \/ \E oc \in Outcomes : recordOutcome(ts, oc) \/ recordActionOutcome(ts, oc))
       => /\ ~ret'.ok /\ ret'.ts = ts
          /\ ret'.op \in {"addUserFeedback", "recordOutcome"}
          /\ UNCHANGED <<recentFeedback, files, statistics, learningData,
                          recentActions, chores>>]_vars

(* C11 witness: a feedback call for an instant 60 seconds after the only
   recorded action returned false. *)
C11_Witness ==
  /\ ret.op = "addUserFeedback" /\ ~ret.ok /\ ret.ts = 60000
  /\ Len(recentFeedback) = 1
  /\ recentFeedback[1].timestamp = 0
  /\ recentFeedback[1].userFeedback = <<>>
  /\ chores = <<>>
  /\ DOMAIN files = {FileName(<<"feedback">>, 0), FileName(<<"actions">>, 0)}
  /\ files[FileName(<<"feedback">>, 0)] = 1

(* C12: the userFeedback an entry carries is never replaced by a later call. *)
C12_FeedbackNotOverwritten ==
  [][\A i \in DOMAIN recentFeedback :
       recentFeedback[i].userFeedback # <<>>
       => (i \in DOMAIN recentFeedback'
           /\ recentFeedback'[i].userFeedback = recentFeedback[i].userFeedback)]_vars

(* C13: the successRate calculateSuccessMetrics returns is the number of
   entries of the trailing 7 days with rating >= 3 or an effective outcome,
   either alone sufficing, over max(1, number of entries of the 7 days). *)
C13_SuccessRate ==
  [][calculateSuccessMetrics
     => LET window == {i \in DOMAIN recentFeedback :
                         recentFeedback[i].timestamp >= now - 7 * 24 * 3600000}
            qualifies(e) == \/ e.userFeedback # <<>> /\ e.userFeedback[1].rating >= 3
                            \/ e.outcome # <<>> /\ e.outcome[1].effective
            successes == Cardinality({i \in window : qualifies(recentFeedback[i])})
            divisor == IF Cardinality(window) > 1 THEN Cardinality(window) ELSE 1
        IN ret'.arg[1][1] * divisor = successes * ret'.arg[1][2]]_vars

(* C17: the successRate held in the statistics is the rate
   calculateSuccessMetrics computes from the feedback window at that moment:
   statistics that are up to date stay so when recordAction or
   recordActionOutcome changes the store (no later step of either touches the
   statistics), and they are up to date when the monitor's addUserFeedback
   returns. *)
C17_SuccessRateCurrent ==
  [][LET Current(stats, store) ==
           stats.successRate[1] * successRate(store, now)[2]
             = successRate(store, now)[1] * stats.successRate[2]
     IN /\ (/\ Current(statistics, recentFeedback)
             /\ \/ \E r \in Recorded : RecordActionCall(r[1], r[2])
                \/ \E ts \in FeedbackInstants, oc \in Outcomes :
                     recordActionOutcome(ts, oc))
            => Current(statistics', recentFeedback')
        /\ (\E k \in DOMAIN chores :
               chores[k].kind = "monitorAddUserFeedback" /\ FeedbackLogged(k))
            => Current(statistics', recentFeedback')]_vars

(* C18: cleanup deletes every actions, feedback and user-feedback file dated
   before the retention cutoff and no other file: the names it goes on to
   unlink once it has read the directory are those of these files, and each
   unlink takes away one of them. *)
C18_CleanupSweepsAllKinds ==
  [][\A k \in DOMAIN chores :
       LET old == {name \in DOMAIN files :
                     /\ name.prefix \in {<<"actions">>, <<"feedback">>,
                                          <<"user", "feedback">>}
                     /\ name.day * DayMs < chores[k].at - RetentionDays * DayMs}
       IN /\ (chores[k].kind = "cleanup" /\ DirRead(k))
             => IF old = {} THEN Len(chores') < Len(chores)
                ELSE Len(chores') = Len(chores) /\ chores'[k].victims = old
          /\ (chores[k].kind = "cleanup" /\ \E n \in chores[k].victims : Unlinked(k, n))
             => (DOMAIN files \ DOMAIN files') \subseteq old]_vars

(* C15: when the decision oracle throws and the analysis holds a single
   toxicity pattern of severity >= 7 and confidence >= 0.7, makeDecisions
   returns exactly one decision, of confidence 0.6, with that pattern as
   provenance and the configured toxicity action as its action. *)
C15_FallbackOnToxicity ==
  [][\A t \in Tasks :
       (/\ DecisionOracleReturns(t, Throws)
        /\ Len(tasks[t].patterns) = 1
        /\ tasks[t].patterns[1].type = "toxicity"
        /\ tasks[t].patterns[1].severity >= 7
        /\ tasks[t].patterns[1].confidence >= 70)
       => /\ Len(tasks'[t].decisions) = 1
          /\ tasks'[t].decisions[1].confidence = 60
          /\ tasks'[t].decisions[1].patterns = tasks[t].patterns
          /\ (tasks'[t].decisions[1].action = "timeoutUser"
              <=> config.rules.toxicityDetection.action = "timeout")
          /\ (tasks'[t].decisions[1].action = "banUser"
              <=> config.rules.toxicityDetection.action = "ban")]_vars

(* C19: when the answer to the decision prompt is not a JSON array,
   makeDecisions returns what the fallback rules give, as when the call throws. *)
C19_GarbageFallsBack ==
  [][\A t \in Tasks :
       DecisionOracleReturns(t, Garbage)
       => tasks'[t].decisions
            = fallbackDecisions(tasks[t].cycle, tasks[t].patterns, <<>>, config, now)]_vars

(* C20: when the parameter oracle throws or answers with text that does not
   parse, the decision made for the proposal has every required parameter of
   its tool. *)
C20_CannedParametersComplete ==
  [][\A t \in Tasks, a \in ParamAnswers :
       (a.kind # "object" /\ ParamOracleReturns(t, a))
       => LET d == tasks'[t].decisions[Len(tasks[t].decisions) + 1]
              tool == CHOOSE x \in {AVAILABLE_MCP_TOOLS[i] : i \in DOMAIN AVAILABLE_MCP_TOOLS} :
                        x.name = d.action
          IN tool.required \subseteq d.parameters]_vars

(* C16: the message window holds exactly the most recent min(total, 100)
   messages in arrival order, and recentActions holds at most 50 decisions,
   in the order in which they were executed (the order in which recordAction
   logged them). *)
C16_WindowsKeepMostRecent ==
  LET kept == IF arrived < 100 THEN arrived ELSE 100
      Pos(id) == CHOOSE i \in DOMAIN recentFeedback :
                   recentFeedback[i].actionTaken.id = id
  IN /\ Len(recentMessages) = kept
     /\ \A i \in 1..kept : recentMessages[i].content = arrived - kept + i
     /\ Len(recentActions) <= 50
     /\ \A i, j \in DOMAIN recentActions :
          i < j => Pos(recentActions[i].id) < Pos(recentActions[j].id)

(* C14 as stated: when every oracle call throws, analyzeChat called on a
   batch of n > 0 messages returns the neutral result (no pattern, sentiment
   0, activity level min(10, n), needsAttention false), n being the number of
   messages of the batch at the call, the number the five prompts were built
   from; and the analysis forceAnalysis goes on with has no pattern. *)
C14_NeutralWhenOracleDown ==
  [][\A t \in Tasks :
       AnalyzerResolves(t, AllThrow)
       => LET n == tasks[t].prompted
          IN /\ ret'.arg[1].patterns = <<>>
             /\ ret'.arg[1].overallSentiment = 0
             /\ ret'.arg[1].activityLevel = (IF n < 10 THEN n ELSE 10)
             /\ ret'.arg[1].needsAttention = FALSE
             /\ tasks[t].kind = "force"
                  => /\ tasks'[t].patterns = <<>>
                     /\ tasks'[t].pc \in {"deciding", "done"}]_vars

(* C21: when makeDecisions returns on the oracle path, the ledger entry of
   every tool named in a returned decision is the time of the return; no
   executor answer and no other step clears an entry or sets it back; and a
   makeDecisions call leaves out of its candidates every tool whose cooldown,
   counted from its entry, has not elapsed. *)
C21_StampedWhateverTheExecutor ==
  [][/\ \A t \in Tasks :
          (/\ tasks[t].pc \in {"deciding", "paramGen"}
           /\ tasks'[t].pc \notin {"deciding", "paramGen"}
           /\ ~DecisionOracleReturns(t, Throws))
          => \A i \in DOMAIN tasks'[t].decisions :
               ledger'[tasks'[t].decisions[i].action] = now
     /\ \A a \in ActionNames : ledger'[a] >= ledger[a]
     /\ (\E t \in Tasks, o \in {"ok", "fail", "throw"} :
           \E i \in DOMAIN tasks[t].decisions : ExecutorReturns(t, i, o))
        => ledger' = ledger
     /\ \A t \in Tasks :
          (tasks'[t].cycle # tasks[t].cycle /\ tasks'[t].pc = "deciding")
          => \A j \in DOMAIN AVAILABLE_MCP_TOOLS :
               (/\ ledger[AVAILABLE_MCP_TOOLS[j].name] # NoTime
                /\ now < ledger[AVAILABLE_MCP_TOOLS[j].name]
                           + AVAILABLE_MCP_TOOLS[j].cooldown * 60000)
               => AVAILABLE_MCP_TOOLS[j].name \notin tasks'[t].avail]_vars

(* C21 witness: the executor failed the banUser decision of a pipeline that
   stamped banUser and createTwitchPoll at time 0, and one millisecond before
   the five minutes are over a second makeDecisions call has neither among
   its candidates. *)
C21_Witness ==
  \E t, u \in Tasks :
    /\ \E i \in DOMAIN tasks[t].decisions :
         /\ tasks[t].decisions[i].action = "banUser"
         /\ <<i, FALSE>> \in {tasks[t].results[k] : k \in DOMAIN tasks[t].results}
    /\ ledger["banUser"] = 0
    /\ ledger["createTwitchPoll"] = 0
    /\ now = 299999
    /\ tasks[u].pc = "deciding"
    /\ "banUser" \notin tasks[u].avail
    /\ "createTwitchPoll" \notin tasks[u].avail

(* C22: when the decision oracle throws, makeDecisions returns without a
   further oracle call, and no returned decision comes from a pattern with
   confidence < 0.7, from a toxicity pattern with severity < 7, from a spam
   pattern with severity < 6 or from a pattern of another type: there is at
   most one decision per pattern at or above the thresholds. *)
C22_FallbackThresholds ==
  [][\A t \in Tasks :
       DecisionOracleReturns(t, Throws)
       => LET Fires(p) == /\ p.confidence >= 70
                          /\ \/ p.type = "toxicity" /\ p.severity >= 7
                             \/ p.type = "spam" /\ p.severity >= 6
              ps == tasks[t].patterns
              ds == tasks'[t].decisions
          IN /\ tasks'[t].pc = "done"
             /\ \A i \in DOMAIN ds :
                  /\ Len(ds[i].patterns) = 1
                  /\ Fires(ds[i].patterns[1])
                  /\ \E j \in DOMAIN ps : ps[j] = ds[i].patterns[1]
             /\ Len(ds) <= Cardinality({j \in DOMAIN ps : Fires(ps[j])})]_vars

(* C22 witness: the fallback ran over a spam pattern of severity 5 and one of
   severity 6 and returned one decision, for the second. *)
C22_Witness ==
  \E t \in Tasks :
    /\ tasks[t].kind = "engine" /\ tasks[t].pc = "done"
    /\ Len(tasks[t].decisions) = 1
    /\ tasks[t].decisions[1].patterns = <<Pattern("spam", 6, 80)>>
    /\ tasks[t].decisions[1].confidence = 60
    /\ tasks[t].decisions[1].action = "timeoutUser"

(* C23: the decisions getAIDecisions adds, from the oracle's answer or after a
   parameter answer, each come from a proposal; a proposal that names a
   targetPattern of which the analysis holds no pattern gives no decision; a
   decision with provenance has as provenance a pattern of the analysis of
   the type its proposal names; and the executor is called only for returned
   decisions. *)
C23_UngroundedDiscarded ==
  [][/\ \A t \in Tasks, a \in LedgerAnswers \cup ParamAnswers :
          (\/ a \in LedgerAnswers /\ a.kind = "array" /\ DecisionOracleReturns(t, a)
           \/ a \in ParamAnswers /\ ParamOracleReturns(t, a))
          => LET props == IF tasks[t].pc = "deciding" THEN a.proposals ELSE tasks[t].raw
                 ps == tasks[t].patterns
                 Grounded(p) == \/ p.targetPattern = "none"
                                \/ \E j \in DOMAIN ps : ps[j].type = p.targetPattern
                 old == Len(tasks[t].decisions)
                 ds == tasks'[t].decisions
             IN \A i \in DOMAIN ds :
                  i > old
                  => \E k \in DOMAIN props :
                       /\ props[k].action = ds[i].action
                       /\ props[k].reason = ds[i].reason
                       /\ Grounded(props[k])
                       /\ ds[i].patterns = <<>> => props[k].targetPattern = "none"
                       /\ ds[i].patterns # <<>>
                          => /\ ds[i].patterns[1].type = props[k].targetPattern
                             /\ \E j \in DOMAIN ps : ps[j] = ds[i].patterns[1]
     /\ \A t \in Tasks, o \in {"ok", "fail", "throw"} :
          \A i \in DOMAIN tasks[t].decisions :
            ExecutorReturns(t, i, o)
            => \A k \in DOMAIN tasks'[t].executed :
                 \E j \in DOMAIN tasks[t].decisions :
                   tasks'[t].executed[k] = tasks[t].decisions[j]]_vars

(* C23 witness: the oracle proposed banUser for the toxicity pattern and
   sendMessageToChat for a question pattern the analysis does not hold; only
   banUser was returned, and it was executed. *)
C23_Witness ==
  \E t \in Tasks :
    /\ tasks[t].kind = "force"
    /\ Len(tasks[t].decisions) = 1
    /\ tasks[t].decisions[1].action = "banUser"
    /\ tasks[t].decisions[1].patterns = <<Tox8>>
    /\ Len(tasks[t].executed) = 1

(* C24: a periodic cycle starts its analysis only when the monitor is active
   and the window is not empty; when analyzeChat resolves, the cycle calls
   makeDecisions with exactly the patterns of confidence >= 0.6 and
   (severity >= 5 or needsAttention), in their order, and when there is none
   it ends there, leaving recentActions, statistics, the cooldown ledger and
   the Feedback Store as they were. *)
C24_SignificantPatternsOnly ==
  [][\A t \in Tasks :
       /\ (tasks'[t] # tasks[t] /\ tasks'[t].kind = "periodic"
           /\ tasks'[t].pc = "analyzing")
          => isActive /\ recentMessages # <<>>
       /\ \A ps \in PatternLists :
            (tasks[t].kind = "periodic" /\ AnalysisReturns(t, ps))
            => LET attention ==
                     \/ \E i \in DOMAIN ps : ps[i].type = "spam" /\ ps[i].severity >= 7
                     \/ \E i \in DOMAIN ps : ps[i].type = "toxicity" /\ ps[i].severity >= 6
                     \/ Cardinality({i \in DOMAIN ps : ps[i].type = "spam"}) >= 2
                   Passes(p) == p.confidence >= 60 /\ (p.severity >= 5 \/ attention)
                   sig == SelectSeq(ps, Passes)
               IN /\ sig = <<>>
                     => /\ tasks'[t].pc = "done"
                        /\ tasks'[t].decisions = <<>>
                        /\ UNCHANGED <<recentActions, statistics, ledger, recentFeedback,
                                       files>>
                  /\ sig # <<>>
                     => \/ tasks'[t].pc = "deciding" /\ tasks'[t].patterns = sig
                        \/ tasks'[t].pc = "done" /\ tasks'[t].avail = {}]_vars

(* C24 witness: a periodic cycle awaits the decision oracle with both patterns
   of an analysis whose severity 4 pattern passes on needsAttention alone. *)
C24_Witness ==
  \E t \in Tasks :
    /\ tasks[t].kind = "periodic" /\ tasks[t].pc = "deciding"
    /\ tasks[t].patterns = <<Tox4, Tox8>>

(* C25: when exactly one of the five answers does not parse and the other
   four are well-formed, analyzeChat returns, type by type and in order, one
   pattern per result of a well-formed list answer that reaches the floor of
   its type and names a message of the batch, with the score as severity and
   the result's user (or, without one, the message's) as user, and no pattern
   of the type whose answer failed; the sentiment and the activity level of
   the well-formed object answers, 0 and 5 for the one that failed; the
   activity answer's recommendations, "Monitor chat" when it failed; and the
   result is not the fallback analysis. *)
C25_ParseFailureIsolated ==
  [][\A t \in Tasks :
       (/\ tasks[t].pc = "analyzing" /\ tasks'[t].pc # "analyzing"
        /\ ret'.op = "analyzeChat" /\ ret'.arg[2] \in OneUnparseable
        /\ AnalyzerResolves(t, ret'.arg[2]))
       => LET messages == BatchOf(t)
              a == ret'.arg[2]
              res == ret'.arg[1]
              Due(f, floor) ==
                IF a[f].kind = "json"
                THEN SelectSeq(a[f].results,
                               LAMBDA r : r.score >= floor
                                          /\ r.messageIndex \in DOMAIN messages)
                ELSE <<>>
              Got(type) == SelectSeq(res.patterns, LAMBDA q : q.type = type)
              Same(type, f, floor) ==
                /\ Len(Got(type)) = Len(Due(f, floor))
                /\ \A i \in DOMAIN Got(type) :
                     /\ Got(type)[i].severity = Due(f, floor)[i].score
                     /\ Got(type)[i].users
                          = <<IF Due(f, floor)[i].username # ""
                              THEN Due(f, floor)[i].username
                              ELSE messages[Due(f, floor)[i].messageIndex].username>>
              Said == {res.recommendations[i] : i \in DOMAIN res.recommendations}
          IN /\ Same("toxicity", "toxicity", 4)
             /\ Same("spam", "spam", 4)
             /\ Same("question", "engagement", 6)
             /\ Len(res.patterns)
                  = Len(Got("toxicity")) + Len(Got("spam")) + Len(Got("question"))
             /\ res.overallSentiment
                  = (IF a.sentiment.kind = "json" THEN a.sentiment.value ELSE 0)
             /\ res.activityLevel
                  = (IF a.activity.kind = "json" THEN a.activity.value ELSE 5)
             /\ IF a.activity.kind = "json"
                THEN \A i \in DOMAIN a.activity.recommendations :
                       Recommendation("activity", a.activity.recommendations[i]) \in Said
                ELSE Recommendation("activity", "Monitor chat") \in Said
             /\ Recommendation("unavailable", "") \notin Said]_vars

(* C25 witness: the activity answer did not parse; the result has the three
   patterns and the sentiment of the other answers, the toxicity and the
   engagement pattern naming the user of the first message and the spam
   pattern the user of its result, activity level 5 and the default
   recommendation of the activity query. *)
C25_Witness ==
  /\ ret.op = "analyzeChat"
  /\ ret.arg[1].patterns = <<ChatPattern("toxicity", 8, 90, "u2"),
                             ChatPattern("spam", 7, 80, "u3"),
                             ChatPattern("question", 6, 70, "u2")>>
  /\ ret.arg[1].overallSentiment = -50
  /\ ret.arg[1].activityLevel = 5
  /\ \E i \in DOMAIN ret.arg[1].recommendations :
       ret.arg[1].recommendations[i] = Recommendation("activity", "Monitor chat")

(* C26: the rate map handed to the spam query by an analysis holds, for each
   user, the number of that user's messages with a timestamp in the trailing
   60 seconds, each message counted once however many analyses ran over it,
   and the timestamps tracked before the analysis that are older than ten
   minutes are gone after it. *)
C26_EachMessageCountedOnce ==
  [][(cycles' # cycles /\ recentMessages # <<>>)
     => LET userCounts == getUserMessageCounts(userMessageCounts', now)
            InLastMinute(u) ==
              Cardinality({i \in DOMAIN recentMessages :
                             /\ recentMessages[i].username = u
                             /\ recentMessages[i].timestamp >= now - OneMinuteMs})
        IN /\ \A u \in TrackedUsers :
                (IF u \in DOMAIN userCounts THEN userCounts[u] ELSE 0) = InLastMinute(u)
           /\ \A u \in DOMAIN userMessageCounts :
                LET fresh == SelectSeq(userMessageCounts[u].timestamps,
                                       LAMBDA x : x >= now - TenMinutesMs)
                    added == Cardinality({i \in DOMAIN recentMessages :
                                            recentMessages[i].username = u})
                IN IF u \in DOMAIN userMessageCounts'
                   THEN Len(userMessageCounts'[u].timestamps) = Len(fresh) + added
                   ELSE Len(fresh) + added = 0]_vars

(* C27: no pattern comes from a toxicity or spam result with a score below 4
   or from an engagement result with a score below 6, and every result at or
   above its floor that names a message of the batch gives exactly one pattern
   of its type with the score as severity: per type and severity there are as
   many patterns as such results. *)
C27_FloorsOfPatterns ==
  ret.op = "convertToPatterns"
  => LET n == ret.ts
         patterns == ret.arg[4]
         Emitted(type, sev) ==
           Cardinality({i \in DOMAIN patterns :
                          patterns[i].type = type /\ patterns[i].severity = sev})
         Due(results, floor, sev) ==
           Cardinality({i \in DOMAIN results :
                          /\ results[i].score = sev
                          /\ sev >= floor
                          /\ results[i].messageIndex \in 1..n})
     IN /\ \A sev \in 0..10 :
             /\ Emitted("toxicity", sev) = Due(ret.arg[1], 4, sev)
             /\ Emitted("spam", sev) = Due(ret.arg[2], 4, sev)
             /\ Emitted("question", sev) = Due(ret.arg[3], 6, sev)
        /\ \A i \in DOMAIN patterns :
             /\ patterns[i].type \in {"toxicity", "spam", "question"}
             /\ patterns[i].severity \in 0..10

(* C27 witness: a toxicity result at the floor gave its pattern, a spam result
   below the floor and one that names no message of the batch gave none, and
   the engagement result of score 5 gave no question pattern. *)
C27_Witness ==
  /\ ret.op = "convertToPatterns"
  /\ ret.ts = 1
  /\ ret.arg[1] = <<Result(1, 4)>>
  /\ ret.arg[2] = <<Result(1, 3), Result(3, 7)>>
  /\ ret.arg[3] = <<Result(1, 5)>>
  /\ ret.arg[4] = <<Pattern("toxicity", 4, 90)>>

(* C28: needsAttention is true exactly when the emitted patterns hold a spam
   pattern of severity 7 or more, a toxicity pattern of severity 6 or more, or
   two or more spam patterns. *)
C28_AttentionIff ==
  ret.op = "convertToPatterns"
  => LET patterns == ret.arg[4]
         Of(type) == {i \in DOMAIN patterns : patterns[i].type = type}
     IN ret.arg[5] = (\/ \E i \in Of("spam") : patterns[i].severity >= 7
                      \/ \E i \in Of("toxicity") : patterns[i].severity >= 6
                      \/ Cardinality(Of("spam")) >= 2)

(* C28 witness: two spam patterns below severity 7 beside a toxicity pattern
   below severity 6 raise the flag. *)
C28_Witness ==
  /\ ret.op = "convertToPatterns"
  /\ ret.arg[4] = <<Pattern("toxicity", 5, 90), Pattern("spam", 4, 80),
                    Pattern("spam", 4, 80)>>
  /\ ret.arg[5] = TRUE

(* C29: when a periodic cycle with at least one executed decision ends,
   statistics.mostCommonAction is an action of maximal frequency in
   recentActions as it stands after the cycle, the cycle's own executed
   actions counted. *)
C29_MostCommonCountsThisCycle ==
  [][\A t \in Tasks :
       (/\ tasks[t].kind = "periodic"
        /\ tasks[t].pc # "done"
        /\ tasks'[t].pc = "done"
        /\ tasks[t].executed # <<>>)
       => LET Frequency(a) == Cardinality({i \in DOMAIN recentActions' :
                                            recentActions'[i].action = a})
          IN \A i \in DOMAIN recentActions' :
               Frequency(statistics'.mostCommonAction)
                 >= Frequency(recentActions'[i].action)]_vars

(* A periodic cycle that ended with a failed executor call behind it. *)
FailedCycle(t) ==
  /\ tasks[t].kind = "periodic"
  /\ tasks[t].pc = "done"
  /\ \E k \in DOMAIN tasks[t].results : ~tasks[t].results[k][2]

(* C30: a failure inside a periodic cycle - the decision oracle throws, an
   executor call rejects - is caught inside the cycle: the step leaves the
   running flag, the timer and its intervals as they are and the cycle goes on
   to its next call or to its end; and with a failed cycle behind it the
   next tick over a non-empty window of an active monitor starts a cycle. *)
C30_FailureCaughtAtCycleBoundary ==
  [][/\ \A t \in Tasks :
          (/\ tasks[t].kind = "periodic"
           /\ \/ DecisionOracleReturns(t, Throws)
              \/ \E i \in DOMAIN tasks[t].decisions : ExecutorReturns(t, i, "throw"))
          => /\ UNCHANGED monitorVars
             /\ tasks'[t].pc \in {"executing", "done"}
     /\ ((\E t \in Tasks : FailedCycle(t)) /\ isActive /\ recentMessages # <<>> /\ Tick)
          => \E u \in Free :
               /\ tasks'[u].kind = "periodic"
               /\ tasks'[u].pc = "analyzing"
               /\ tasks'[u].cycle = cycles + 1]_vars

(* C30 witness: the second cycle runs while the monitor is running with its
   timer armed, the first cycle having ended after a failed executor call. *)
C30_Witness ==
  /\ isRunning /\ monitoringTimer /\ intervals > 0
  /\ \E t, u \in Tasks :
       /\ FailedCycle(t)
       /\ tasks[t].executed = <<>>
       /\ tasks[u].kind = "periodic"
       /\ tasks[u].pc = "analyzing"
       /\ tasks[u].cycle > tasks[t].cycle

(* The entries of the last week with action a that carry a rating, the sum of
   those ratings, and the entries that carry an outcome, read off the store. *)
RatedInWeek(a) ==
  {i \in DOMAIN recentFeedback :
     /\ recentFeedback[i].timestamp >= now - 168 * HourMs
     /\ recentFeedback[i].actionTaken.action = a
     /\ recentFeedback[i].userFeedback # <<>>}

RatingSum(a) ==
  LET N(r) == Cardinality({i \in RatedInWeek(a) :
                             recentFeedback[i].userFeedback[1].rating = r})
  IN N(1) + 2 * N(2) + 3 * N(3) + 4 * N(4) + 5 * N(5)

ObservedInWeek(a) ==
  {i \in DOMAIN recentFeedback :
     /\ recentFeedback[i].timestamp >= now - 168 * HourMs
     /\ recentFeedback[i].actionTaken.action = a
     /\ recentFeedback[i].outcome # <<>>}

EffectiveInWeek(a) == {i \in ObservedInWeek(a) : recentFeedback[i].outcome[1].effective}

LowRated(a) ==
  RatedInWeek(a) # {} /\ 2 * RatingSum(a) < 5 * Cardinality(RatedInWeek(a))

LowEffect(a) ==
  /\ ObservedInWeek(a) # {}
  /\ 10 * Cardinality(EffectiveInWeek(a)) < 3 * Cardinality(ObservedInWeek(a))

Sampled(a) == Cardinality(RatedInWeek(a)) >= 5 \/ Cardinality(ObservedInWeek(a)) >= 5

(* C31 as stated: the insights a generateLearningInsights call computes name
   every action whose average rating of the last week is below 2.5 for
   reduced frequency and every action whose effectiveness rate is below 0.3
   for a parameter review, whatever the number of its samples. *)
C31_FlagsWhateverTheSamples ==
  [][generateLearningInsights
     => LET recommendations == chores'[Len(chores')].arg[2]
        IN \A a \in ActionNames :
             /\ LowRated(a) => a \in recommendations.reduce
             /\ LowEffect(a) => a \in recommendations.review]_vars

(* C31 amended: of the store as it is when generateLearningInsights is called,
   an action with at least five samples (ratings or outcomes, whichever are
   more) is named for reduced frequency when its average rating is below 2.5
   and for a parameter review when its effectiveness rate is below 0.3; an
   action with fewer samples is named for neither; and the call returns,
   after the file is written, what it computed at the call. *)
C31_FlagsFromFiveSamples ==
  [][/\ generateLearningInsights
        => LET recommendations == chores'[Len(chores')].arg[2]
           IN \A a \in ActionNames :
                /\ (Sampled(a) /\ LowRated(a)) => a \in recommendations.reduce
                /\ (Sampled(a) /\ LowEffect(a)) => a \in recommendations.review
                /\ ~Sampled(a)
                     => a \notin recommendations.reduce \cup recommendations.review
     /\ \A k \in DOMAIN chores :
          (chores[k].kind = "generateLearningInsights" /\ InsightsWritten(k))
          => ret'.arg = chores[k].arg]_vars

(* C31 witness: five rated timeoutUser decisions of the last week, four rated
   1 and one rated 5, and the insights of a call made now, which waits for its
   file, name the action for reduced frequency. *)
C31_Witness ==
  /\ Cardinality(RatedInWeek("timeoutUser")) = 5
  /\ RatingSum("timeoutUser") = 9
  /\ \E k \in DOMAIN chores :
       /\ chores[k].kind = "generateLearningInsights"
       /\ chores[k].at = now
       /\ chores[k].arg[2].reduce = {"timeoutUser"}

(* C32: addUserFeedback and recordOutcome neither add nor remove an entry and
   leave every entry's timestamp and actionTaken as recorded; addUserFeedback
   leaves every outcome and recordOutcome every userFeedback as it was. *)
C32_RecordedDecisionImmutable ==
  [][LET Kept(userFeedbackToo, outcomeToo) ==
           /\ Len(recentFeedback') = Len(recentFeedback)
           /\ \A i \in DOMAIN recentFeedback :
                /\ recentFeedback'[i].timestamp = recentFeedback[i].timestamp
                /\ recentFeedback'[i].actionTaken = recentFeedback[i].actionTaken
                /\ outcomeToo => recentFeedback'[i].outcome = recentFeedback[i].outcome
                /\ userFeedbackToo
                     => recentFeedback'[i].userFeedback = recentFeedback[i].userFeedback
     IN /\ (\/ \E ts \in FeedbackInstants, fb \in Feedbacks :
                  addUserFeedback(ts, fb) \/ monitorAddUserFeedback(ts, fb)
             \/ \E k \in DOMAIN chores :
                  /\ chores[k].kind \in {"addUserFeedback", "monitorAddUserFeedback"}
                  /\ EntryUpdated(k) \/ FeedbackLogged(k))
            => Kept(FALSE, TRUE)
        /\ (\/ \E ts \in FeedbackInstants, oc \in Outcomes : recordOutcome(ts, oc)
             \/ \E k \in DOMAIN chores :
                  chores[k].kind = "recordOutcome" /\ EntryUpdated(k))
            => Kept(TRUE, FALSE)]_vars

(* C32 witness: feedback was attached to an entry whose outcome had been
   recorded before, beside a second entry that has neither. *)
C32_Witness ==
  /\ ret.op = "addUserFeedback" /\ ret.ok
  /\ Len(recentFeedback) = 2
  /\ \E i, j \in DOMAIN recentFeedback :
       /\ recentFeedback[i].userFeedback # <<>>
       /\ recentFeedback[i].outcome # <<>>
       /\ recentFeedback[j].userFeedback = <<>>
       /\ recentFeedback[j].outcome = <<>>

(* C33: every decision makeDecisions returns on the oracle path names a tool
   of the candidate set computed for that call - a known tool, out of its
   cooldown, its configuration gate open; a proposal that names another tool
   is not returned. *)
C33_DecisionsFromCandidates ==
  [][\A t \in Tasks :
       (\/ \E a \in EngineAnswers : a.kind # "throw" /\ DecisionOracleReturns(t, a)
        \/ \E a \in ParamAnswers : ParamOracleReturns(t, a))
       => \A i \in DOMAIN tasks'[t].decisions :
            tasks'[t].decisions[i].action \in tasks[t].avail]_vars

(* C34: the fallback rules respect the cooldown ledger: two fallback decisions
   of different cycles for the same tool are at least the tool's cooldown
   apart, so among the executed decisions there are no two such within it. *)
C34_FallbackRespectsCooldown ==
  \A i, j \in DOMAIN recentActions :
    (/\ i < j
     /\ recentActions[i].confidence = FallbackConfidence
     /\ recentActions[j].confidence = FallbackConfidence
     /\ recentActions[i].action = recentActions[j].action
     /\ recentActions[i].id[1] # recentActions[j].id[1])
    => LET tool == CHOOSE x \in {AVAILABLE_MCP_TOOLS[k] : k \in DOMAIN AVAILABLE_MCP_TOOLS} :
                     x.name = recentActions[i].action
       IN Abs(recentActions[j].timestamp - recentActions[i].timestamp)
            >= tool.cooldown * MsPerMinute

(* C35: whatever the sequence of start() and stop() calls, at most one
   daily-maintenance schedule is armed: a start() after a stop() does not
   leave the schedule of the earlier run armed beside its own. *)
C35_OneMaintenanceSchedule == maintenance <= 1

(* C36: in every state reached by start(), stop() and updateConfig() the
   periodic timer is armed exactly when the monitor is running, and there is
   never more than one periodic timer. *)
C36_TimerIffRunning ==
  /\ monitoringTimer <=> isRunning
  /\ intervals = IF isRunning THEN 1 ELSE 0

(* C36 witness: the monitor runs with one timer after it was started,
   stopped and started anew. *)
C36_Witness ==
  /\ isRunning /\ monitoringTimer /\ intervals = 1
  /\ maintenance = 2
  /\ lifecycleLog = "Autonomous monitoring started"

(* C37: the learning counters do not drift: for every pattern key k,
   successfulPatterns[k] + failedPatterns[k] is at most the number of
   (entry, pattern) pairs with key k among the entries that carry feedback. *)
C37_LearningCountsOnce ==
  LET Counter(map, k) == IF k \in DOMAIN map THEN map[k] ELSE 0
      Pairs(k) ==
        UNION {{<<i, j>> : j \in {n \in DOMAIN recentFeedback[i].actionTaken.patterns :
                                    patternKey(recentFeedback[i].actionTaken.patterns[n]) = k}} :
               i \in {m \in DOMAIN recentFeedback : recentFeedback[m].userFeedback # <<>>}}
  IN \A k \in DOMAIN learningData.successfulPatterns \cup DOMAIN learningData.failedPatterns :
       Counter(learningData.successfulPatterns, k) + Counter(learningData.failedPatterns, k)
         <= Cardinality(Pairs(k))

(* C38: with every oracle call throwing, no pipeline, periodic or forced,
   comes to an executor call or to a parameter prompt, no decision is made,
   and the Feedback Store, its files, recentActions, the statistics and the
   cooldown ledger stay as they were at construction. *)
C38_NoActionWhenOracleDown ==
  /\ \A t \in Tasks :
       /\ tasks[t].pc \in {"idle", "analyzing", "microtask", "deciding", "done"}
       /\ tasks[t].decisions = <<>>
       /\ tasks[t].pending = {}
       /\ tasks[t].results = <<>>
  /\ recentFeedback = <<>>
  /\ files = <<>>
  /\ recentActions = <<>>
  /\ statistics.actionsToday = 0
  /\ \A a \in ActionNames : ledger[a] = NoTime

(* C38 witness: a periodic cycle and a forced pipeline over a non-empty window
   are both over, the forced one after its decision prompt was answered by an
   exception. *)
C38_Witness ==
  /\ recentMessages # <<>>
  /\ \E t, u \in Tasks :
       /\ tasks[t].kind = "periodic" /\ tasks[t].pc = "done"
       /\ tasks[u].kind = "force" /\ tasks[u].pc = "done" /\ tasks[u].avail = {}
  /\ lastAnalysis = now /\ cycles = 2

(* C39: updateConfig with enabled = false on a running monitor leaves it
   stopped, with the periodic timer cancelled and isActive false; while the
   configuration stays disabled the monitor stays so, start() changes nothing
   of it, and no periodic cycle starts. *)
C39_DisableStopsForGood ==
  [][LET stopped == ~isRunning' /\ ~monitoringTimer' /\ intervals' = 0 /\ ~isActive'
         periodicStarts ==
           \E t \in Tasks : /\ tasks'[t].kind = "periodic"
                            /\ tasks'[t].cycle = cycles + 1
                            /\ cycles' = cycles + 1
     IN /\ (isRunning /\ updateConfig(Disabled)) => stopped
        /\ (~config.enabled /\ start) => (UNCHANGED monitorVars /\ stopped)
        /\ (~config.enabled /\ ~config'.enabled) => (stopped /\ ~periodicStarts)]_vars

(* C39 witness: a monitor that was started and then disabled has refused a
   start() and is stopped with no timer. *)
C39_Witness ==
  /\ ~config.enabled
  /\ maintenance >= 1
  /\ lifecycleLog = "Autonomous monitoring is disabled in configuration"
  /\ ~isRunning /\ ~monitoringTimer /\ intervals = 0 /\ ~isActive
  /\ recentMessages # <<>>

(* C40: no step of a periodic cycle or of a forced pipeline, from its start to
   its last executor call, changes the message window; the window changes
   only when messages arrive. *)
C40_AnalysisKeepsWindow ==
  [][/\ (tasks' # tasks \/ cycles' # cycles) => recentMessages' = recentMessages
     /\ (recentMessages' # recentMessages) => arrived' > arrived]_vars

(* C40 witness: one message arrived, it is still in the window, and actions of
   two different cycles were taken and recorded over it. *)
C40_Witness ==
  /\ arrived = 1
  /\ Len(recentMessages) = 1
  /\ \E i, j \in DOMAIN recentFeedback :
       recentFeedback[i].actionTaken.id[1] # recentFeedback[j].actionTaken.id[1]

====
